---------------------------- MODULE Spec2Model ----------------------------
(***************************************************************************)
(* HyperSniper indexer (srobex/TGTON2Index): the block ingestion loop of   *)
(* pkg/ton/client.go, the deployment classifier analyzeTransaction, the    *)
(* interface verifier of internal/detector, the Redis dedup cache of       *)
(* internal/storage and the dispatcher Processor.Handle.                   *)
(*                                                                         *)
(* Specifications:                                                         *)
(*   Spec          Subscribe / processBlock / shard workers / processShard *)
(*   SpecClassify  analyzeTransaction applied to every transaction shape   *)
(*   SpecHandle    concurrent Processor.Handle calls (current processor)   *)
(*   SpecSeqno     Processor.Handle of internal/processor/processor.go,    *)
(*                 which registers the seqno first, over RedisCache        *)
(*   SpecStop      Service.Start / Stop, Subscribe and the handler under    *)
(*                 the root context                                        *)
(***************************************************************************)
EXTENDS Integers, Sequences, FiniteSets, TLC

VARIABLES
    \* ---- SpecClassify
    tx,          \* the transaction handed to analyzeTransaction
    res,         \* its (isDeploy, codeHash) result, or NoResult
    \* ---- Spec (ingestion)
    head,        \* masterchain head seqno served by the liteservers
    lastMC,      \* IndexerClient.lastMC
    sub,         \* Subscribe: [pc, lastSeqno, newMaster, seqno]
    pb,          \* processBlock: [pc, seqno, shardChan, shardErr, shardOk]
    wk,          \* shard worker goroutines of the running processBlock
    outcome,     \* per masterchain seqno, what processBlock(seqno) came to:
                 \*   "err" it returned an error, "ok" it returned nil and every
                 \*   processShard did, "shardfail" some processShard failed and
                 \*   some did not, "shardsfail" every processShard failed
    procLog,     \* seqnos handed to processBlock, in call order
    blockConns,  \* liteserver connections that served the current block
    handed,      \* refs of the current block with a deploy given to handler
    \* ---- SpecHandle / SpecSeqno (dispatcher)
    minters,     \* Redis keys hsi:minter:<addr> that exist
    seqnoSet,    \* Redis sorted set hsi:seqno
    codeHashes,  \* Detector.codeHashes: fingerprint -> description
    hw,          \* one record per goroutine that may be inside Handle
    sunk,        \* address -> number of NotifyWithEvent deliveries
    cacheErrSeen,\* some cache operation returned an error
    fatal,       \* the Go runtime aborted on a concurrent map access
    last,        \* SpecSeqno: summary of the last completed Handle call
    \* ---- SpecRegister (RedisCache.RegisterSeqno, command by command)
    rs,          \* one record per goroutine that may be inside RegisterSeqno
    ret,         \* the RegisterSeqno call that returned last
    inserted,    \* seqnos ZAddNX ever added to hsi:seqno
    \* ---- SpecMinter (RedisCache minter keys with their TTL)
    ttlLeft,     \* minter key -> time left before Redis expires it, 0: no key
    rem,         \* the RememberMinter call that returned last
    asked,       \* the IsMinterKnown call that returned last
    \* ---- SpecDiscover (Handle as its inspection and its completion)
    today,       \* the calendar day of time.Now()
    pending,     \* goroutine -> metadata VerifyAndInspect returned to it
    insp,        \* the VerifyAndInspect call that returned last
    done,        \* the Handle call that completed last
    \* ---- SpecJetton (get_jetton_data to metadata)
    jin,         \* the code hash handed over, and the get_jetton_data reply
    jout,        \* what VerifyAndInspect returned for it, or NoMeta
    \* ---- SpecLatency (the times of a discovery)
    clock,       \* the indexer's wall clock, in milliseconds
    evt,         \* the deploy event on its way from processShard to the webhook
    hook,        \* meta of the webhook payload sent last
    \* ---- SpecNotify (NotifyWithEvent)
    nt,          \* the NotifyWithEvent call in progress or completed last
    \* ---- SpecStop (the service under its root context)
    rt,          \* Service and Subscribe: position, locals, lastMC, root ctx
    rtLog,       \* processBlock calls: seqno, and whether ctx was cancelled
    rtEmit,      \* Seqno of every event handed to the handler
    hc,          \* the Processor.Handle call a shard worker is inside
    \* ---- SpecFetch (one Handle call at a time)
    hr,          \* the Handle call that returned last
    \* ---- SpecDeadline (the contexts of one processBlock call)
    dl,          \* processBlock: position, clock, contexts, last shard request
    \* ---- SpecPool (the worker pool of one processBlock call)
    pl,          \* processBlock: position, shardChan, and who processed which ref
    pw,          \* the worker goroutines of the pool
    \* ---- SpecWorkers (the size of the pool)
    wc,          \* a client: GOMAXPROCS, shardWorkers, the last block's numWorkers
    \* ---- SpecPage (processShard page by page)
    pg,          \* processShard: position, cursor, fetched ids, classified ids
    \* ---- SpecStats (the counters of the processor)
    sc,          \* totalProcessed, totalDetected, and the Handle calls at them
    \* ---- SpecLookup (registry lookups)
    lk,          \* the lookup made last: the queried string and the answers
    \* ---- SpecRetry (deploy events of an address after a failed delivery)
    rh           \* the Handle call that returned last, and the one before it

classifyVars == <<tx, res>>
registerVars == <<rs, ret, inserted>>
minterVars   == <<ttlLeft, rem, asked>>
discoverVars == <<today, pending, insp, done>>
jettonVars   == <<jin, jout>>
latencyVars  == <<clock, evt, hook>>
notifyVars   == <<nt>>
stopVars     == <<rt, rtLog, rtEmit, hc>>
fetchVars    == <<hr>>
deadlineVars == <<dl>>
poolVars     == <<pl, pw>>
workerVars   == <<wc>>
pageVars     == <<pg>>
statsVars    == <<sc>>
lookupVars   == <<lk>>
retryVars    == <<rh>>
flowVars     == <<stopVars, fetchVars, deadlineVars, poolVars, workerVars, pageVars,
                  statsVars, lookupVars, retryVars>>
unitVars     == <<discoverVars, jettonVars, latencyVars, notifyVars, flowVars>>
cacheVars    == <<seqnoSet, last, registerVars, minterVars>>
seqnoVars    == <<cacheVars, unitVars>>
ingestVars   == <<head, lastMC, sub, pb, wk, outcome, procLog, blockConns, handed>>
handleVars   == <<minters, codeHashes, hw, sunk, cacheErrSeen, fatal>>
vars == <<tx, res, head, lastMC, sub, pb, wk, outcome, procLog, blockConns,
          handed, minters, seqnoSet, codeHashes, hw, sunk,
          cacheErrSeen, fatal, last, rs, ret, inserted, ttlLeft, rem,
          asked, today, pending, insp, done, jin, jout, clock, evt, hook,
          nt, rt, rtLog, rtEmit, hc, hr, dl, pl, pw, wc, pg, sc, lk, rh>>

-----------------------------------------------------------------------------
(* Bounds of the model *)

\* cells that may appear as StateInit.Code / account code
NumCells == 2
\* highest masterchain seqno the liteservers ever serve
MaxHead == 3
\* most shard refs GetBlockShardsInfo returns for one masterchain block
MaxShards == 1
\* most transactions listed for one shard block
MaxTx == 1
\* most deliveries counted per address
MaxSunk == 2
\* RedisCache.seqnoWindow (app.master_seqno_cache_size) of the deployment
SeqnoWindow == 2
\* GOMAXPROCS of the build host
GoMaxProcs == 1

-----------------------------------------------------------------------------
(* Strings are sequences of one-character strings, so that hex encoding and *)
(* lower-casing are computed rather than assumed.                           *)

HexDigits ==
    <<"0","1","2","3","4","5","6","7","8","9","a","b","c","d","e","f">>

UpperLetters ==
    <<"A","B","C","D","E","F","G","H","I","J","K","L","M",
      "N","O","P","Q","R","S","T","U","V","W","X","Y","Z">>

LowerLetters ==
    <<"a","b","c","d","e","f","g","h","i","j","k","l","m",
      "n","o","p","q","r","s","t","u","v","w","x","y","z">>

\* encoding/hex EncodeToString: two lower-case digits per byte
RECURSIVE EncodeToString(_)
EncodeToString(bs) ==
    IF bs = <<>> THEN <<>>
    ELSE <<HexDigits[(Head(bs) \div 16) + 1], HexDigits[(Head(bs) % 16) + 1]>>
         \o EncodeToString(Tail(bs))

LowerChar(c) ==
    IF \E i \in 1..Len(UpperLetters) : UpperLetters[i] = c
    THEN LowerLetters[CHOOSE i \in 1..Len(UpperLetters) : UpperLetters[i] = c]
    ELSE c

\* strings.ToLower
ToLower(s) == [i \in 1..Len(s) |-> LowerChar(s[i])]

-----------------------------------------------------------------------------
(* Cells and transactions *)

Cells == 1..NumCells

\* cell.Hash(): an injective digest; two bytes stand for the 32 of SHA-256
CellHash(c) == <<160 + c, 255 - (16 * c)>>

\* account ids (one byte stands for the 32 of an account id)
Accounts == {<<170>>, <<187>>}

\* fmt.Sprintf("%d", workchain) for the workchains in use
FormatInt(n) == IF n < 0 THEN <<"-", "1">> ELSE <<"0">>

\* processShard: addrStr := fmt.Sprintf("%d:%s", workchain, hex(account))
AddrStr(workchain, account) ==
    FormatInt(workchain) \o <<":">> \o EncodeToString(account)

Hashes == {"h0", "h1"}

NilTx == [nil |-> TRUE]

\* tlb.Transaction as analyzeTransaction and processShard read it:
\*   in         IO.In nil ("nil"), IO.In.Msg nil ("nilmsg"), or the message type
\*   stateInit  the message's StateInit is non-nil
\*   code       StateInit.Code (0 is nil)
\*   data       StateInit.Data (0 is nil)
\*   old, new   StateUpdate.OldHash / NewHash
TxSpace ==
    {NilTx} \cup
    { t \in [nil : {FALSE},
             in : {"nil", "nilmsg", "internal", "external", "externalout"},
             stateInit : BOOLEAN,
             code : 0..NumCells,
             data : 0..NumCells,
             old : Hashes,
             new : Hashes] :
        /\ (t.stateInit => t.in \in {"internal", "external"})
        /\ (t.code # 0 => t.stateInit)
        /\ (t.data # 0 => t.stateInit) }

NoResult == [pending |-> TRUE]

NotDeploy == [isDeploy |-> FALSE, codeHash |-> <<>>]

\* analyzeTransaction altered: the StateInit.Code nil check is dropped
analyzeTransaction_NoCodeCheck(t) ==
    IF t.nil THEN NotDeploy
    ELSE IF t.in = "nil" THEN NotDeploy
    ELSE IF t.in = "nilmsg" THEN NotDeploy
    ELSE IF t.in \notin {"internal", "external"} THEN NotDeploy
    ELSE IF ~t.stateInit THEN NotDeploy
    ELSE [isDeploy |-> TRUE,
          codeHash |-> IF t.code = 0 THEN <<>>
                       ELSE EncodeToString(CellHash(t.code))]

\* IndexerClient.analyzeTransaction
analyzeTransaction(t) ==
    IF t.nil THEN NotDeploy
    ELSE IF t.in = "nil" THEN NotDeploy
    ELSE IF t.in = "nilmsg" THEN NotDeploy
    ELSE IF t.in \notin {"internal", "external"} THEN NotDeploy
    ELSE IF ~t.stateInit THEN NotDeploy
    ELSE IF t.code = 0 THEN NotDeploy
    ELSE [isDeploy |-> TRUE, codeHash |-> EncodeToString(CellHash(t.code))]


-----------------------------------------------------------------------------
(* SpecClassify: the deployment classifier on every transaction shape *)

\* processShard hands the loaded transaction to analyzeTransaction
Classify ==
    /\ res = NoResult
    /\ res' = analyzeTransaction(tx)
    /\ UNCHANGED <<tx, ingestVars, handleVars, seqnoVars>>

\* the next transaction of the shard is loaded (GetTransaction)
LoadTx ==
    /\ res # NoResult
    /\ tx' \in TxSpace
    /\ res' = NoResult
    /\ UNCHANGED <<ingestVars, handleVars, seqnoVars>>

-----------------------------------------------------------------------------
(* Spec: the ingestion loop *)

\* liteserver connections of the pool
Conns == {"ls1", "ls2"}

\* the master block itself is ref 0, its shard blocks are refs 1..n
MasterRef == 0

workerMultiplier == 4

\* the upper clamp left out
NewIndexerClient_NoCap(procs) ==
    LET workers == procs * workerMultiplier
    IN  IF workers < 8 THEN 8 ELSE workers

\* NewIndexerClient: GOMAXPROCS * workerMultiplier clamped to 8..64
NewIndexerClient(procs) ==
    LET workers == procs * workerMultiplier
    IN  IF workers < 8 THEN 8 ELSE IF workers > 64 THEN 64 ELSE workers

\* the shardWorkers field of the client of the ingestion specifications
shardWorkers == NewIndexerClient(GoMaxProcs)

\* processBlock: numWorkers of a client with the given shardWorkers, for a
\* block with n shard refs
NumWorkersOf(workers, n) == IF workers > n + 1 THEN n + 1 ELSE workers

\* processBlock: numWorkers for a block with n shard refs
numWorkers(n) == NumWorkersOf(shardWorkers, n)

Seqnos == 1..MaxHead

PbIdle == [pc |-> "idle", seqno |-> 0, shardChan |-> <<>>, shardErr |-> FALSE,
           shardOk |-> FALSE]

SubStart == [pc |-> "start", lastSeqno |-> 0, newMaster |-> 0, seqno |-> 0]

\* The connections that may serve a request issued on ctx: the code passes
\* the plain (timeout-derived) context to c.api, never a StickyContext, so
\* the pool's balancer is free to pick any connection for each request.
Route == Conns

\* one pool request made while a masterchain block is being processed
Serve(c) == blockConns' = blockConns \cup {c}

\* the liteservers produce a new masterchain block
NewMasterBlock ==
    /\ head < MaxHead
    /\ head' = head + 1
    /\ UNCHANGED <<lastMC, sub, pb, wk, outcome, procLog, blockConns, handed>>
    /\ UNCHANGED <<classifyVars, handleVars, seqnoVars>>

\* Subscribe up to the main loop: lastMC := current head, or the error return
SubscribeStart ==
    /\ sub.pc = "start"
    /\ \/ /\ lastMC' = head
          /\ sub' = [sub EXCEPT !.pc = "poll"]
       \/ /\ sub' = [sub EXCEPT !.pc = "stopped"]
          /\ UNCHANGED lastMC
    /\ UNCHANGED <<head, pb, wk, outcome, procLog, blockConns, handed>>
    /\ UNCHANGED <<classifyVars, handleVars, seqnoVars>>

\* one tick of the main loop: CurrentMasterchainInfo fails (sleep, continue),
\* or nothing new (sleep), or the inner loop is entered at lastSeqno + 1
Poll ==
    /\ sub.pc = "poll"
    /\ \/ UNCHANGED sub
       \/ /\ head > lastMC
          /\ sub' = [pc |-> "loop", lastSeqno |-> lastMC, newMaster |-> head,
                     seqno |-> lastMC + 1]
    /\ UNCHANGED <<head, lastMC, pb, wk, outcome, procLog, blockConns, handed>>
    /\ UNCHANGED <<classifyVars, handleVars, seqnoVars>>

\* inner loop, seqno <= newMaster.SeqNo: processBlock(ctx, seqno, handler)
ProcessBlockCall ==
    /\ sub.pc = "loop"
    /\ pb.pc = "idle"
    /\ sub.seqno <= sub.newMaster
    /\ pb' = [PbIdle EXCEPT !.pc = "lookup", !.seqno = sub.seqno]
    /\ procLog' = Append(procLog, sub.seqno)
    /\ blockConns' = {}
    /\ handed' = {}
    /\ UNCHANGED <<head, lastMC, sub, wk, outcome>>
    /\ UNCHANGED <<classifyVars, handleVars, seqnoVars>>

\* processBlock returned to Subscribe: an error is only logged, then
\* blocksTotal is counted and seqno++ in either case
ReturnToLoop(result) ==
    /\ outcome' = [outcome EXCEPT ![pb.seqno] = result]
    /\ pb' = PbIdle
    /\ sub' = [sub EXCEPT !.seqno = @ + 1]

\* c.api.LookupBlock(blockCtx, -1, ..., seqno)
LookupBlock ==
    /\ pb.pc = "lookup"
    /\ \E c \in Route :
         /\ Serve(c)
         /\ \/ /\ pb' = [pb EXCEPT !.pc = "shards"]
               /\ UNCHANGED <<sub, outcome>>
            \/ ReturnToLoop("err")
    /\ UNCHANGED <<head, lastMC, wk, procLog, handed>>
    /\ UNCHANGED <<classifyVars, handleVars, seqnoVars>>

NewWorker == [pc |-> "recv", ref |-> 0, todo |-> 0, seqno |-> pb.seqno]

\* c.api.GetBlockShardsInfo, then the workers are started, the master ref and
\* every shard ref are sent on the buffered channel and the channel is closed
GetBlockShardsInfo ==
    /\ pb.pc = "shards"
    /\ \E c \in Route :
         /\ Serve(c)
         /\ \/ /\ ReturnToLoop("err")
               /\ UNCHANGED wk
            \/ \E n \in 0..MaxShards :
                 /\ pb' = [pb EXCEPT !.pc = "wait",
                                     !.shardChan = [i \in 1..(n + 1) |->
                                        IF i = 1 THEN MasterRef ELSE i - 1]]
                 /\ wk' = [w \in 1..numWorkers(n) |-> NewWorker]
                 /\ UNCHANGED <<sub, outcome>>
    /\ UNCHANGED <<head, lastMC, procLog, handed>>
    /\ UNCHANGED <<classifyVars, handleVars, seqnoVars>>

\* for shard := range shardChan
WorkerRecv(w) ==
    /\ wk[w].pc = "recv"
    /\ IF pb.shardChan # <<>>
       THEN /\ wk' = [wk EXCEPT ![w].pc = "list", ![w].ref = Head(pb.shardChan)]
            /\ pb' = [pb EXCEPT !.shardChan = Tail(@)]
       ELSE /\ wk' = [wk EXCEPT ![w].pc = "exit", ![w].ref = 0]
            /\ UNCHANGED pb
    /\ UNCHANGED <<head, lastMC, sub, outcome, procLog, blockConns, handed>>
    /\ UNCHANGED <<classifyVars, handleVars, seqnoVars>>

\* processShard: the GetBlockTransactionsV2 loop; an error returns from
\* processShard (logged by the worker at debug level), otherwise the ids
\* of the shard block are in fetchedIDs
ListTransactions(w) ==
    /\ wk[w].pc = "list"
    /\ \E c \in Route :
         /\ Serve(c)
         /\ \/ /\ wk' = [wk EXCEPT ![w].pc = "recv"]
               /\ pb' = [pb EXCEPT !.shardErr = TRUE]
            \/ \E n \in 0..MaxTx :
                 /\ wk' = [wk EXCEPT ![w].pc = IF n = 0 THEN "recv" ELSE "tx",
                                     ![w].todo = n]
                 /\ pb' = [pb EXCEPT !.shardOk = @ \/ n = 0]
    /\ UNCHANGED <<head, lastMC, sub, outcome, procLog, handed>>
    /\ UNCHANGED <<classifyVars, handleVars, seqnoVars>>

TxDone(w) ==
    [wk EXCEPT ![w].todo = @ - 1,
               ![w].pc = IF wk[w].todo = 1 THEN "recv" ELSE "tx"]

\* processShard: one iteration of the loop over fetchedIDs. GetTransaction
\* fails (continue) or yields a transaction; a deploy is given to handler,
\* whose own pool requests (CurrentMasterchainInfo, RunGetMethod, GetAccount)
\* are routed like any other
ProcessTx(w) ==
    /\ wk[w].pc = "tx"
    /\ wk' = TxDone(w)
    /\ pb' = [pb EXCEPT !.shardOk = @ \/ wk[w].todo = 1]
    /\ \E c \in Route :
         \/ /\ Serve(c)
            /\ UNCHANGED handed
         \/ \E t \in TxSpace :
              IF analyzeTransaction(t).isDeploy
              THEN /\ handed' = handed \cup {wk[w].ref}
                   /\ \E c2 \in Route : blockConns' = blockConns \cup {c, c2}
              ELSE /\ Serve(c)
                   /\ UNCHANGED handed
    /\ UNCHANGED <<head, lastMC, sub, outcome, procLog>>
    /\ UNCHANGED <<classifyVars, handleVars, seqnoVars>>

\* wg.Wait altered: processBlock returns without waiting
WgWaitDone_NoWait == TRUE

\* wg.Wait(): every worker goroutine has called wg.Done
WgWaitDone == \A w \in DOMAIN wk : wk[w].pc = "exit"

StillRunning == SelectSeq(wk, LAMBDA r : r.pc # "exit")

\* processBlock: wg.Wait() is over, return nil
ProcessBlockReturn ==
    /\ pb.pc = "wait"
    /\ WgWaitDone
    /\ ReturnToLoop(IF ~pb.shardErr THEN "ok"
                    ELSE IF pb.shardOk THEN "shardfail" ELSE "shardsfail")
    /\ wk' = StillRunning
    /\ UNCHANGED <<head, lastMC, procLog, blockConns, handed>>
    /\ UNCHANGED <<classifyVars, handleVars, seqnoVars>>

\* the store altered: the seqno before the last one processed
AdvanceTo_Behind(newMaster) == newMaster - 1

\* c.lastMC = newMaster.SeqNo
AdvanceTo(newMaster) == newMaster

\* the inner loop is over: lastMC is set under the mutex, then sleep
Advance ==
    /\ sub.pc = "loop"
    /\ pb.pc = "idle"
    /\ sub.seqno > sub.newMaster
    /\ lastMC' = AdvanceTo(sub.newMaster)
    /\ sub' = [sub EXCEPT !.pc = "poll"]
    /\ UNCHANGED <<head, pb, wk, outcome, procLog, blockConns, handed>>
    /\ UNCHANGED <<classifyVars, handleVars, seqnoVars>>

IngestInit ==
    /\ head = 1
    /\ lastMC = 0
    /\ sub = SubStart
    /\ pb = PbIdle
    /\ wk = <<>>
    /\ outcome = [s \in Seqnos |-> "none"]
    /\ procLog = <<>>
    /\ blockConns = {}
    /\ handed = {}

IngestNext ==
    \/ NewMasterBlock
    \/ SubscribeStart
    \/ Poll
    \/ ProcessBlockCall
    \/ LookupBlock
    \/ GetBlockShardsInfo
    \/ \E w \in DOMAIN wk : WorkerRecv(w)
    \/ \E w \in DOMAIN wk : ListTransactions(w)
    \/ \E w \in DOMAIN wk : ProcessTx(w)
    \/ ProcessBlockReturn
    \/ Advance

-----------------------------------------------------------------------------
(* The known-fingerprint registry (internal/detector) *)

\* detector.defaultCodeHashes
defaultCodeHashes ==
       <<"b","5","e","e","9","c","7","2","4","1","0","1","0","1","0","1","0","0","1","0","0","0">> :> "Official Jetton Minter (short)"
    @@ <<"s","t","o","n","f","i","_","j","e","t","t","o","n","_","m","i","n","t","e","r","_","v","1">> :> "Stonfi Jetton v1"
    @@ <<"s","t","o","n","f","i","_","j","e","t","t","o","n","_","m","i","n","t","e","r","_","v","2">> :> "Stonfi Jetton v2"
    @@ <<"d","e","d","u","s","t","_","j","e","t","t","o","n","_","m","i","n","t","e","r">> :> "DeDust Jetton"
    @@ <<"u","s","d","t","_","t","o","n","_","m","i","n","t","e","r">> :> "USDT Minter"
    @@ <<"n","o","t","c","o","i","n","_","m","i","n","t","e","r">> :> "Notcoin Minter"

\* NewDetector: every seed key is lower-cased
NewDetectorHashes ==
    [k \in {ToLower(h) : h \in DOMAIN defaultCodeHashes} |->
        defaultCodeHashes[CHOOSE h \in DOMAIN defaultCodeHashes : ToLower(h) = k]]

\* the lookup altered: the queried string is looked up as it came
IsKnownCodeHash_Exact(reg, codeHash) == codeHash \in DOMAIN reg

\* Detector.IsKnownCodeHash
IsKnownCodeHash(reg, codeHash) == ToLower(codeHash) \in DOMAIN reg

\* GetMinterType altered: the description is never looked up
GetMinterType_Unknown(reg, codeHash) == "Unknown"

\* Detector.GetMinterType
GetMinterType(reg, codeHash) ==
    IF ToLower(codeHash) \in DOMAIN reg THEN reg[ToLower(codeHash)] ELSE "Unknown"

\* AddCodeHash altered: nothing is stored
AddCodeHash_Noop(reg, hash, description) == reg

\* Detector.AddCodeHash: an unconditional map store
AddCodeHash(reg, hash, description) ==
    [k \in DOMAIN reg \cup {ToLower(hash)} |->
        IF k = ToLower(hash) THEN description ELSE reg[k]]

\* Handle: "auto_verified_" + time.Now().Format("2006-01-02")
AutoLabel == "auto_verified_<date>"

\* VerifyAndInspect altered: the final rejection is dropped
NotJettonMinter_Never(known, verified) == FALSE

\* VerifyAndInspect: if !meta.KnownCodeHash && !meta.VerifiedByInterface
NotJettonMinter(known, verified) == ~known /\ ~verified

\* verifyJettonInterface: the reply of get_jetton_data is an error, or a stack
\* of this many elements; fewer than 4 is not the interface
StackLens == {3, 5}

Replies ==
    {[err |-> TRUE, len |-> 0]} \cup {[err |-> FALSE, len |-> n] : n \in StackLens}

\* verifyJettonInterface altered: any reply without an error is accepted
InterfaceVerified_AnyLen(reply) == ~reply.err

\* verifyJettonInterface: no error and at least 4 stack elements
InterfaceVerified(reply) == ~reply.err /\ reply.len >= 4

-----------------------------------------------------------------------------
(* The dedup cache (internal/storage RedisCache), minter keys *)

\* cfg.Redis minter TTL, in clock ticks
MinterTTL == 2
\* calendar days the clock passes through
MaxDay == 2
\* half seconds the wall clock passes through
MaxTicks == 6
\* longest time, in seconds, a sink's server takes to answer
MaxResponse == 6

\* RedisCache.minterKey without the constant prefix
minterKey(address) == ToLower(address)

\* RedisCache.IsMinterKnown with a healthy Redis: EXISTS key > 0
MinterExists(keys, address) == minterKey(address) \in keys

\* RememberMinter altered: SET on a key that exists deletes it
MinterSet_Toggle(keys, address) ==
    IF minterKey(address) \in keys THEN keys \ {minterKey(address)}
    ELSE keys \cup {minterKey(address)}

\* RedisCache.RememberMinter with a healthy Redis: SET key 1 EX ttl
MinterSet(keys, address) == keys \cup {minterKey(address)}

-----------------------------------------------------------------------------
(* SpecHandle: goroutines inside Processor.Handle (the current processor) *)

\* goroutines that may call the handler at the same time (shard workers)
Handlers == {"g1", "g2"}

Addrs == {AddrStr(0, a) : a \in Accounts}

Fingerprints == {EncodeToString(CellHash(c)) : c \in Cells}

\* ton.Event as Handle reads it
Events == [addr : Addrs, codeHash : {<<>>} \cup Fingerprints, isDeploy : BOOLEAN]

HwIdle == [pc |-> "idle", addr |-> <<>>, codeHash |-> <<>>,
           known |-> FALSE, verified |-> FALSE, minterType |-> ""]

\* a cache operation either succeeds or returns an error
CacheOutcomes == {"ok", "err"}

NoteCache(o) == cacheErrSeen' = (cacheErrSeen \/ o = "err")

\* Handle entry: a non-deploy event returns at once
HandleCall(g) ==
    /\ ~fatal
    /\ hw[g].pc = "idle"
    /\ \E ev \in Events :
         IF ev.isDeploy
         THEN hw' = [hw EXCEPT ![g] = [HwIdle EXCEPT !.pc = "known",
                                                     !.addr = ev.addr,
                                                     !.codeHash = ev.codeHash]]
         ELSE UNCHANGED hw
    /\ UNCHANGED <<minters, codeHashes, sunk, cacheErrSeen, fatal>>
    /\ UNCHANGED <<classifyVars, ingestVars, seqnoVars>>

\* p.cache.IsMinterKnown: an error is logged and seen stays false
IsMinterKnown(g) ==
    /\ ~fatal
    /\ hw[g].pc = "known"
    /\ \E o \in CacheOutcomes :
         LET seen == o = "ok" /\ MinterExists(minters, hw[g].addr)
         IN  /\ NoteCache(o)
             /\ hw' = [hw EXCEPT ![g] =
                        IF seen THEN HwIdle
                        ELSE [@ EXCEPT !.pc = IF hw[g].codeHash = <<>>
                                              THEN "code" ELSE "verify"]]
    /\ UNCHANGED <<minters, codeHashes, sunk, fatal>>
    /\ UNCHANGED <<classifyVars, ingestVars, seqnoVars>>

\* p.client.GetCodeHash when the event carries no code hash: an error
\* drops the event, otherwise the hex of the account's code cell hash
GetCodeHash(g) ==
    /\ ~fatal
    /\ hw[g].pc = "code"
    /\ \/ hw' = [hw EXCEPT ![g] = HwIdle]
       \/ \E c \in Cells :
            hw' = [hw EXCEPT ![g].codeHash = EncodeToString(CellHash(c)),
                             ![g].pc = "verify"]
    /\ UNCHANGED <<minters, codeHashes, sunk, cacheErrSeen, fatal>>
    /\ UNCHANGED <<classifyVars, ingestVars, seqnoVars>>

\* VerifyAndInspect: the goroutine enters the unlocked map reads
RegistryReadBegin(g) ==
    /\ ~fatal
    /\ hw[g].pc = "verify"
    /\ hw' = [hw EXCEPT ![g].pc = "reading"]
    /\ UNCHANGED <<minters, codeHashes, sunk, cacheErrSeen, fatal>>
    /\ UNCHANGED <<classifyVars, ingestVars, seqnoVars>>

\* VerifyAndInspect: KnownCodeHash and MinterType are read from the map
RegistryReadEnd(g) ==
    /\ ~fatal
    /\ hw[g].pc = "reading"
    /\ hw' = [hw EXCEPT ![g].known = IsKnownCodeHash(codeHashes, ToLower(hw[g].codeHash)),
                        ![g].minterType = GetMinterType(codeHashes, ToLower(hw[g].codeHash)),
                        ![g].codeHash = ToLower(hw[g].codeHash),
                        ![g].pc = "getmethod"]
    /\ UNCHANGED <<minters, codeHashes, sunk, cacheErrSeen, fatal>>
    /\ UNCHANGED <<classifyVars, ingestVars, seqnoVars>>

\* verifyJettonInterface and the decision of VerifyAndInspect
RunGetMethod(g) ==
    /\ ~fatal
    /\ hw[g].pc = "getmethod"
    /\ \E reply \in Replies :
         LET verified == InterfaceVerified(reply)
         IN  hw' = [hw EXCEPT ![g] =
                      IF NotJettonMinter(hw[g].known, verified) THEN HwIdle
                      ELSE [@ EXCEPT !.verified = verified,
                                     !.minterType =
                                        IF verified /\ ~hw[g].known
                                        THEN "Interface-Verified (Unknown Code)"
                                        ELSE hw[g].minterType,
                                     !.pc = "remember"]]
    /\ UNCHANGED <<minters, codeHashes, sunk, cacheErrSeen, fatal>>
    /\ UNCHANGED <<classifyVars, ingestVars, seqnoVars>>

\* p.cache.RememberMinter(ctx, meta.Address): an error is only logged
RememberMinter(g) ==
    /\ ~fatal
    /\ hw[g].pc = "remember"
    /\ \E o \in CacheOutcomes :
         /\ NoteCache(o)
         /\ minters' = IF o = "ok" THEN MinterSet(minters, hw[g].addr)
                       ELSE minters
    /\ hw' = [hw EXCEPT ![g].pc = IF hw[g].verified /\ ~hw[g].known
                                  THEN "add" ELSE "notify"]
    /\ UNCHANGED <<codeHashes, sunk, fatal>>
    /\ UNCHANGED <<classifyVars, ingestVars, seqnoVars>>

\* p.detector.AddCodeHash: the goroutine enters the unlocked map store
RegistryWriteBegin(g) ==
    /\ ~fatal
    /\ hw[g].pc = "add"
    /\ hw' = [hw EXCEPT ![g].pc = "writing"]
    /\ UNCHANGED <<minters, codeHashes, sunk, cacheErrSeen, fatal>>
    /\ UNCHANGED <<classifyVars, ingestVars, seqnoVars>>

\* p.detector.AddCodeHash: the store is done
RegistryWriteEnd(g) ==
    /\ ~fatal
    /\ hw[g].pc = "writing"
    /\ codeHashes' = AddCodeHash(codeHashes, hw[g].codeHash, AutoLabel)
    /\ hw' = [hw EXCEPT ![g].pc = "notify"]
    /\ UNCHANGED <<minters, sunk, cacheErrSeen, fatal>>
    /\ UNCHANGED <<classifyVars, ingestVars, seqnoVars>>

\* p.notifier.NotifyWithEvent, then return nil
Notify(g) ==
    /\ ~fatal
    /\ hw[g].pc = "notify"
    /\ sunk[hw[g].addr] < MaxSunk
    /\ sunk' = [sunk EXCEPT ![hw[g].addr] = @ + 1]
    /\ hw' = [hw EXCEPT ![g] = HwIdle]
    /\ UNCHANGED <<minters, codeHashes, cacheErrSeen, fatal>>
    /\ UNCHANGED <<classifyVars, ingestVars, seqnoVars>>

\* two goroutines are inside the registry map at once, one of them storing
Racing ==
    \E g1, g2 \in Handlers :
        /\ g1 # g2
        /\ hw[g1].pc = "writing"
        /\ hw[g2].pc \in {"reading", "writing"}

\* the Go runtime may detect the unsynchronised map access and abort the
\* process ("fatal error: concurrent map read and map write")
RuntimeThrow ==
    /\ ~fatal
    /\ Racing
    /\ fatal' = TRUE
    /\ UNCHANGED <<minters, codeHashes, hw, sunk, cacheErrSeen>>
    /\ UNCHANGED <<classifyVars, ingestVars, seqnoVars>>

HandleInit ==
    /\ minters = {}
    /\ codeHashes = NewDetectorHashes
    /\ hw = [g \in Handlers |-> HwIdle]
    /\ sunk = [a \in Addrs |-> 0]
    /\ cacheErrSeen = FALSE
    /\ fatal = FALSE

HandleNext ==
    \/ \E g \in Handlers : HandleCall(g)
    \/ \E g \in Handlers : IsMinterKnown(g)
    \/ \E g \in Handlers : GetCodeHash(g)
    \/ \E g \in Handlers : RegistryReadBegin(g)
    \/ \E g \in Handlers : RegistryReadEnd(g)
    \/ \E g \in Handlers : RunGetMethod(g)
    \/ \E g \in Handlers : RememberMinter(g)
    \/ \E g \in Handlers : RegistryWriteBegin(g)
    \/ \E g \in Handlers : RegistryWriteEnd(g)
    \/ \E g \in Handlers : Notify(g)
    \/ RuntimeThrow

-----------------------------------------------------------------------------
(* SpecSeqno: Processor.Handle of internal/processor/processor.go, one call *)
(* at a time, over RedisCache                                               *)

\* the lowest-ranked n members of the sorted set (score = member = seqno)
RECURSIVE LowestRanked(_, _)
LowestRanked(set, n) ==
    IF n = 0 \/ set = {} THEN {}
    ELSE LET m == CHOOSE x \in set : \A y \in set : x <= y
         IN  {m} \cup LowestRanked(set \ {m}, n - 1)

RegOutcomes == {"ok", "zadd_err", "zcard_err", "zrem_err"}

\* RedisCache.RegisterSeqno with trimSeqno; o names the Redis command that
\* fails, if any. The result is (set afterwards, isNew, err).
RegisterSeqno(set, seqno, o) ==
    IF seqno = 0 THEN [set |-> set, isNew |-> TRUE, err |-> FALSE]
    ELSE IF o = "zadd_err" THEN [set |-> set, isNew |-> FALSE, err |-> TRUE]
    ELSE IF seqno \in set THEN [set |-> set, isNew |-> FALSE, err |-> FALSE]
    ELSE LET added == set \cup {seqno}
             count == Cardinality(added)
         IN  IF o = "zcard_err"
             THEN [set |-> added, isNew |-> FALSE, err |-> TRUE]
             ELSE IF count <= SeqnoWindow
             THEN [set |-> added, isNew |-> TRUE, err |-> FALSE]
             ELSE IF o = "zrem_err"
             THEN [set |-> added, isNew |-> FALSE, err |-> TRUE]
             ELSE [set |-> added \ LowestRanked(added, count - SeqnoWindow),
                   isNew |-> TRUE, err |-> FALSE]

\* detector.defaultCodeHashes of the detector that offers Inspect: a list of
\* full-length code hashes; the hash of cell 1 stands for its entries
inspectCodeHashes == EncodeToString(CellHash(1)) :> "Official TEP-74 v1"

\* Detector.IsJettonMinter
IsJettonMinter(reg, codeHash) == ToLower(codeHash) \in DOMAIN reg

SeqnoEvents ==
    [addr : Addrs, codeHash : {<<>>} \cup Fingerprints, isDeploy : BOOLEAN,
     seqno : 0..MaxHead]

\* what the calls made by one Handle come to (code 0: GetCodeHash fails)
CallOutcomes ==
    [reg : RegOutcomes, known : CacheOutcomes, remember : CacheOutcomes,
     code : 0..NumCells]

Dropped(c, cacheErr) ==
    [seqnoSet |-> c.seqnoSet, minters |-> c.minters, emitted |-> FALSE,
     cacheErr |-> cacheErr]

\* Processor.Handle (processor.go): the cache state c = (seqnoSet, minters)
\* afterwards, whether the discovery was reported, and whether a cache
\* operation failed
HandleSeqnoRun(c, ev, o) ==
    IF ~ev.isDeploy THEN Dropped(c, FALSE)
    ELSE
    LET reg  == IF ev.seqno > 0
                THEN RegisterSeqno(c.seqnoSet, ev.seqno, o.reg)
                ELSE [set |-> c.seqnoSet, isNew |-> TRUE, err |-> FALSE]
        c1   == [seqnoSet |-> reg.set, minters |-> c.minters]
        seen == o.known = "ok" /\ MinterExists(c.minters, ev.addr)
        e2   == reg.err \/ o.known = "err"
        codeHash == IF ev.codeHash # <<>> THEN ev.codeHash
                    ELSE IF o.code = 0 THEN <<>>
                    ELSE EncodeToString(CellHash(o.code))
    IN  IF ~reg.isNew THEN Dropped(c1, reg.err)
        ELSE IF seen THEN Dropped(c1, e2)
        ELSE IF codeHash = <<>> THEN Dropped(c1, e2)
        ELSE IF ~IsJettonMinter(inspectCodeHashes, codeHash) THEN Dropped(c1, e2)
        ELSE [seqnoSet |-> c1.seqnoSet,
              minters  |-> IF o.remember = "ok"
                           THEN MinterSet(c1.minters, ev.addr)
                           ELSE c1.minters,
              emitted  |-> TRUE,
              cacheErr |-> e2 \/ o.remember = "err"]

\* the same calls with every cache operation succeeding
Healthy(o) == [o EXCEPT !.reg = "ok", !.known = "ok", !.remember = "ok"]

EmptyCache == [seqnoSet |-> {}, minters |-> {}]

NoCall == [called |-> FALSE, emitted |-> FALSE, cacheErr |-> FALSE,
           healthyEmits |-> FALSE, addrKnown |-> FALSE]

\* one complete Handle call
HandleSeqno ==
    \E ev \in SeqnoEvents, o \in CallOutcomes :
        LET r == HandleSeqnoRun([seqnoSet |-> seqnoSet, minters |-> minters], ev, o)
        IN  /\ seqnoSet' = r.seqnoSet
            /\ minters' = r.minters
            /\ last' = [called |-> TRUE, emitted |-> r.emitted,
                        cacheErr |-> r.cacheErr,
                        healthyEmits |-> HandleSeqnoRun(EmptyCache, ev, Healthy(o)).emitted,
                        addrKnown |-> MinterExists(minters, ev.addr)]
            /\ UNCHANGED <<registerVars, minterVars, unitVars>>
            /\ UNCHANGED <<classifyVars, ingestVars, codeHashes, hw, sunk,
                           cacheErrSeen, fatal>>

\* a minter key reaches its TTL and Redis drops it
ExpireMinter ==
    /\ \E k \in minters : minters' = minters \ {k}
    /\ UNCHANGED <<seqnoSet, last, registerVars, minterVars, unitVars>>
    /\ UNCHANGED <<classifyVars, ingestVars, codeHashes, hw, sunk,
                   cacheErrSeen, fatal>>

-----------------------------------------------------------------------------
(* SpecRegister: RedisCache.RegisterSeqno as the Redis commands it sends,  *)
(* called by the goroutines that run the handler                           *)

RsIdle == [pc |-> "idle", seqno |-> 0, absent |-> FALSE, before |-> {},
           extra |-> 0]

NoRet == [called |-> FALSE, seqno |-> 0, isNew |-> FALSE, err |-> FALSE,
          absent |-> FALSE, before |-> {}, after |-> {}, ins |-> {}]

\* RegisterSeqno returns (isNew, err). Recorded with it: whether the seqno
\* was absent when ZAddNX ran (or, with no ZAddNX, when the call returned),
\* the sorted set before that command, the sorted set at the return and the
\* seqnos inserted so far
Return(g, seqno, isNew, err, absent, before, set) ==
    /\ ret' = [called |-> TRUE, seqno |-> seqno, isNew |-> isNew, err |-> err,
               absent |-> absent, before |-> before, after |-> set,
               ins |-> inserted]
    /\ rs' = [rs EXCEPT ![g] = RsIdle]
    /\ cacheErrSeen' = (cacheErrSeen \/ err)

\* RegisterSeqno entry: seqno 0 is reported new without touching Redis
RegisterCall(g) ==
    /\ rs[g].pc = "idle"
    /\ \E seqno \in 0..MaxHead :
         IF seqno = 0
         THEN Return(g, 0, TRUE, FALSE, TRUE, seqnoSet, seqnoSet)
         ELSE /\ rs' = [rs EXCEPT ![g] = [RsIdle EXCEPT !.pc = "zadd",
                                                        !.seqno = seqno]]
              /\ UNCHANGED <<ret, cacheErrSeen>>
    /\ UNCHANGED <<seqnoSet, inserted, last, minterVars, unitVars>>
    /\ UNCHANGED <<classifyVars, ingestVars, minters, codeHashes, hw, sunk, fatal>>

\* c.client.ZAddNX(seqnoSetKey, {Score: seqno, Member: seqno})
ZAddNX(g) ==
    /\ rs[g].pc = "zadd"
    /\ LET seqno == rs[g].seqno
           added == seqno \notin seqnoSet
       IN  \/ /\ Return(g, seqno, FALSE, TRUE, added, seqnoSet, seqnoSet)
              /\ UNCHANGED <<seqnoSet, inserted>>
           \/ /\ seqnoSet' = seqnoSet \cup {seqno}
              /\ inserted' = IF added THEN inserted \cup {seqno} ELSE inserted
              /\ IF added
                 THEN /\ rs' = [rs EXCEPT ![g].pc = "zcard",
                                          ![g].absent = TRUE,
                                          ![g].before = seqnoSet]
                      /\ UNCHANGED <<ret, cacheErrSeen>>
                 ELSE Return(g, seqno, FALSE, FALSE, FALSE, seqnoSet, seqnoSet)
    /\ UNCHANGED <<last, minterVars, unitVars>>
    /\ UNCHANGED <<classifyVars, ingestVars, minters, codeHashes, hw, sunk, fatal>>

\* trimSeqno: c.client.ZCard(seqnoSetKey) and the comparison with the window
ZCard(g) ==
    /\ rs[g].pc = "zcard"
    /\ \/ Return(g, rs[g].seqno, FALSE, TRUE, TRUE, rs[g].before, seqnoSet)
       \/ LET count == Cardinality(seqnoSet)
          IN  IF count <= SeqnoWindow
              THEN Return(g, rs[g].seqno, TRUE, FALSE, TRUE, rs[g].before, seqnoSet)
              ELSE /\ rs' = [rs EXCEPT ![g].pc = "zrem",
                                       ![g].extra = count - SeqnoWindow]
                   /\ UNCHANGED <<ret, cacheErrSeen>>
    /\ UNCHANGED <<seqnoSet, inserted, last, minterVars, unitVars>>
    /\ UNCHANGED <<classifyVars, ingestVars, minters, codeHashes, hw, sunk, fatal>>

\* trimSeqno: c.client.ZRemRangeByRank(seqnoSetKey, 0, extra-1)
ZRemRangeByRank(g) ==
    /\ rs[g].pc = "zrem"
    /\ \/ /\ Return(g, rs[g].seqno, FALSE, TRUE, TRUE, rs[g].before, seqnoSet)
          /\ UNCHANGED seqnoSet
       \/ LET trimmed == seqnoSet \ LowestRanked(seqnoSet, rs[g].extra)
          IN  /\ seqnoSet' = trimmed
              /\ Return(g, rs[g].seqno, TRUE, FALSE, TRUE, rs[g].before, trimmed)
    /\ UNCHANGED <<inserted, last, minterVars, unitVars>>
    /\ UNCHANGED <<classifyVars, ingestVars, minters, codeHashes, hw, sunk, fatal>>

RegisterNext ==
    \/ \E g \in Handlers : RegisterCall(g)
    \/ \E g \in Handlers : ZAddNX(g)
    \/ \E g \in Handlers : ZCard(g)
    \/ \E g \in Handlers : ZRemRangeByRank(g)

-----------------------------------------------------------------------------
(* SpecMinter: the minter keys of RedisCache with their TTL *)

\* addresses given to the cache: those of events, and one written in
\* upper-case hex
CacheAddrs == Addrs \cup {<<"0", ":", "A", "A">>}

MinterKeys == {minterKey(a) : a \in CacheAddrs}

NoRem == [called |-> FALSE, addr |-> <<>>, err |-> FALSE, before |-> {},
          after |-> {}]

NoAsk == [called |-> FALSE, addr |-> <<>>, err |-> FALSE, seen |-> FALSE]

\* RedisCache.RememberMinter: SET key 1 with the TTL, or an error
RememberMinterCall ==
    /\ \E a \in CacheAddrs, o \in CacheOutcomes :
         LET after == IF o = "ok" THEN MinterSet(minters, a) ELSE minters
         IN  /\ minters' = after
             /\ ttlLeft' = IF o = "ok"
                           THEN [ttlLeft EXCEPT ![minterKey(a)] = MinterTTL]
                           ELSE ttlLeft
             /\ rem' = [called |-> TRUE, addr |-> a, err |-> o = "err",
                        before |-> minters, after |-> after]
    /\ UNCHANGED <<asked, seqnoSet, last, registerVars, unitVars>>
    /\ UNCHANGED <<classifyVars, ingestVars, codeHashes, hw, sunk,
                   cacheErrSeen, fatal>>

\* RedisCache.IsMinterKnown: EXISTS key, or an error with false
IsMinterKnownCall ==
    /\ \E a \in CacheAddrs, o \in CacheOutcomes :
         asked' = [called |-> TRUE, addr |-> a, err |-> o = "err",
                   seen |-> o = "ok" /\ MinterExists(minters, a)]
    /\ UNCHANGED <<ttlLeft, rem, seqnoSet, last, registerVars, unitVars>>
    /\ UNCHANGED <<classifyVars, ingestVars, handleVars>>

\* one tick of time passes in Redis: a key whose TTL runs out is dropped
TtlTick ==
    /\ \E k \in MinterKeys : ttlLeft[k] > 0
    /\ ttlLeft' = [k \in MinterKeys |-> IF ttlLeft[k] > 0 THEN ttlLeft[k] - 1
                                        ELSE 0]
    /\ minters' = {k \in MinterKeys : ttlLeft[k] > 1}
    /\ UNCHANGED <<rem, asked, seqnoSet, last, registerVars, unitVars>>
    /\ UNCHANGED <<classifyVars, ingestVars, codeHashes, hw, sunk,
                   cacheErrSeen, fatal>>

-----------------------------------------------------------------------------
(* SpecDiscover: Processor.Handle (the current processor) in two parts, the *)
(* inspection up to the return of VerifyAndInspect and the completion after *)
(* it; the goroutines that run the handler may each be between the two      *)

Days == 1..MaxDay

\* time.Now().Format("2006-01-02")
FormatDate(day) == "2025-01-0" \o ToString(day)

\* the label altered: the date alone
AutoLabelOn_DateOnly(day) == FormatDate(day)

\* Handle: "auto_verified_" + time.Now().Format("2006-01-02") on a given day
AutoLabelOn(day) == "auto_verified_" \o FormatDate(day)

NoMeta == [none |-> TRUE]

NoInsp == [called |-> FALSE, known |-> FALSE, reply |-> [err |-> TRUE, len |-> 0],
           queued |-> FALSE, present |-> FALSE]

NoDone == [called |-> FALSE, known |-> FALSE, verified |-> FALSE,
           minterType |-> "", codeHash |-> <<>>, added |-> FALSE,
           present |-> FALSE, labelBefore |-> "", labelAfter |-> "",
           day |-> 1]

\* Handle up to the return of VerifyAndInspect: the dedup check (answered by
\* a healthy cache), the registry lookup, the interface check and the decision
InspectCall(g) ==
    /\ pending[g] = NoMeta
    /\ \E addr \in Addrs, fp \in Fingerprints, reply \in Replies :
         LET seen     == MinterExists(minters, addr)
             codeHash == ToLower(fp)
             known    == IsKnownCodeHash(codeHashes, codeHash)
             verified == InterfaceVerified(reply)
             queued   == ~NotJettonMinter(known, verified)
             present  == codeHash \in DOMAIN codeHashes
             meta     == [addr |-> addr, codeHash |-> codeHash,
                          known |-> known, verified |-> verified,
                          present |-> present,
                          minterType |->
                              IF verified /\ ~known
                              THEN "Interface-Verified (Unknown Code)"
                              ELSE GetMinterType(codeHashes, codeHash)]
         IN  /\ ~seen
             /\ insp' = [called |-> TRUE, known |-> known, reply |-> reply,
                         queued |-> queued, present |-> present]
             /\ pending' = IF queued THEN [pending EXCEPT ![g] = meta]
                           ELSE pending
    /\ UNCHANGED <<today, done, minters, codeHashes>>
    /\ UNCHANGED <<flowVars, classifyVars, ingestVars, cacheVars, jettonVars,
                   latencyVars, notifyVars, hw, sunk,
                   cacheErrSeen, fatal>>

\* Handle after VerifyAndInspect: RememberMinter, AddCodeHash for metadata
\* verified by interface with an unknown code hash, NotifyWithEvent
FinishCall(g) ==
    /\ pending[g] # NoMeta
    /\ \E o \in CacheOutcomes :
         LET m     == pending[g]
             added == m.verified /\ ~m.known
             reg   == IF added
                      THEN AddCodeHash(codeHashes, m.codeHash, AutoLabelOn(today))
                      ELSE codeHashes
         IN  /\ minters' = IF o = "ok" THEN MinterSet(minters, m.addr)
                           ELSE minters
             /\ codeHashes' = reg
             /\ done' = [called |-> TRUE, known |-> m.known,
                         verified |-> m.verified, minterType |-> m.minterType,
                         codeHash |-> m.codeHash, added |-> added,
                         present |-> m.codeHash \in DOMAIN codeHashes,
                         labelBefore |-> GetMinterType(codeHashes, m.codeHash),
                         labelAfter |-> GetMinterType(reg, m.codeHash),
                         day |-> today]
    /\ pending' = [pending EXCEPT ![g] = NoMeta]
    /\ UNCHANGED <<today, insp>>
    /\ UNCHANGED <<flowVars, classifyVars, ingestVars, cacheVars, jettonVars,
                   latencyVars, notifyVars, hw, sunk,
                   cacheErrSeen, fatal>>

\* midnight passes
DayPasses ==
    /\ today < MaxDay
    /\ today' = today + 1
    /\ UNCHANGED <<pending, insp, done>>
    /\ UNCHANGED <<flowVars, classifyVars, ingestVars, cacheVars, jettonVars,
                   latencyVars, notifyVars, handleVars>>

DiscoverIdle ==
    /\ today = 1
    /\ pending = [g \in Handlers |-> NoMeta]
    /\ insp = NoInsp
    /\ done = NoDone

-----------------------------------------------------------------------------
(* SpecJetton: from the get_jetton_data stack to the metadata. A Go string  *)
(* or []byte is a sequence of byte values here.                             *)

Abs(n) == IF n < 0 THEN -n ELSE n

\* big.Int.Bytes(): the big-endian bytes of the absolute value, none for 0
RECURSIVE BigIntBytes(_)
BigIntBytes(n) ==
    IF n = 0 THEN <<>>
    ELSE Append(BigIntBytes(Abs(n) \div 256), Abs(n) % 256)

\* a stack element of the liteserver's reply: a *big.Int or a []byte
IntElem(n) == [isInt |-> TRUE, int |-> n, bytes |-> <<>>]
BytesElem(b) == [isInt |-> FALSE, int |-> 0, bytes |-> b]

\* IndexerClient.RunGetMethod: the type switch over one tuple element
AsBytes(v) == IF v.isInt THEN BigIntBytes(v.int) ELSE v.bytes

\* IndexerClient.RunGetMethod: the [][]byte built from res.AsTuple()
ConvertTuple(stack) == [i \in 1..Len(stack) |-> AsBytes(stack[i])]

\* detector.bytesToBigIntString: "0" for no bytes, else string(b)
bytesToBigIntString(b) == IF Len(b) = 0 THEN <<48>> ELSE b

\* detector.parseJettonContent, its decimals result
parseJettonContent(b) == IF Len(b) = 0 THEN 9 ELSE 9

\* the zero value of JettonData
ZeroJettonData == [totalSupply |-> <<>>, decimals |-> 0]

\* verifyJettonInterface: the fields parsed out of a result of >= 4 elements
ParseJettonData(result) ==
    [totalSupply |-> IF Len(result[1]) > 0 THEN bytesToBigIntString(result[1])
                     ELSE ZeroJettonData.totalSupply,
     decimals    |-> IF Len(result) > 3 /\ Len(result[4]) > 0
                     THEN parseJettonContent(result[4])
                     ELSE ZeroJettonData.decimals]

\* Detector.VerifyAndInspect: the metadata returned for a code hash, given
\* the registry and the get_jetton_data reply; NoMeta for ErrNotJettonMinter
VerifyAndInspect(reg, codeHash, reply) ==
    LET codeHashLower == ToLower(codeHash)
        known    == IsKnownCodeHash(reg, codeHashLower)
        result   == ConvertTuple(reply.stack)
        verified == InterfaceVerified([err |-> reply.err, len |-> Len(result)])
        data     == IF verified THEN ParseJettonData(result) ELSE ZeroJettonData
    IN  IF NotJettonMinter(known, verified) THEN NoMeta
        ELSE [known |-> known, verified |-> verified,
              minterType |-> IF verified /\ ~known
                             THEN "Interface-Verified (Unknown Code)"
                             ELSE GetMinterType(reg, codeHashLower),
              totalSupply |-> data.totalSupply, decimals |-> data.decimals]

\* total_supply values a minter may report
SupplyValues == {0, 7, 1000, 65536}

\* the content element as RunGetMethod hands it on: empty, an off-chain URI
\* (0x01 then the URI), on-chain data (0x00 ...)
Contents == {<<>>, <<1, 104>>, <<0, 110>>}

\* replies of get_jetton_data: an error, a stack of 3 elements, the stack of
\* TEP-74 (total_supply, mintable, admin_address, content, wallet_code)
JettonReplies ==
    {[err |-> TRUE, stack |-> <<>>]}
    \cup {[err |-> FALSE,
           stack |-> <<IntElem(n), IntElem(m), BytesElem(<<69>>)>>] :
             n \in SupplyValues, m \in {0, -1}}
    \cup {[err |-> FALSE,
           stack |-> <<IntElem(n), IntElem(m), BytesElem(<<69>>),
                       BytesElem(c), BytesElem(<<181>>)>>] :
             n \in SupplyValues, m \in {0, -1}, c \in Contents}

\* code hashes handed to VerifyAndInspect: two of the registry and the
\* fingerprints of deployed code
JettonHashes ==
    {h \in DOMAIN defaultCodeHashes : Len(h) < 16} \cup Fingerprints

JettonInputs == [codeHash : JettonHashes, reply : JettonReplies]

\* p.detector.VerifyAndInspect(ctx, address, codeHash)
InspectJetton ==
    /\ jout = NoResult
    /\ jout' = VerifyAndInspect(codeHashes, jin.codeHash, jin.reply)
    /\ UNCHANGED jin
    /\ UNCHANGED <<flowVars, classifyVars, ingestVars, handleVars, cacheVars,
                   discoverVars, latencyVars, notifyVars>>

\* the next deploy event reaches Handle
NextDeploy ==
    /\ jout # NoResult
    /\ jin' \in JettonInputs
    /\ jout' = NoResult
    /\ UNCHANGED <<flowVars, classifyVars, ingestVars, handleVars, cacheVars,
                   discoverVars, latencyVars, notifyVars>>

JettonIdle ==
    /\ jin = [codeHash |-> <<>>, reply |-> [err |-> TRUE, stack |-> <<>>]]
    /\ jout = NoResult

-----------------------------------------------------------------------------
(* SpecLatency: the times carried from processShard through Handle to the  *)
(* webhook payload                                                         *)

\* milliseconds in a second
MsPerSecond == 1000

\* the clock is read every half second
TickMs == MsPerSecond \div 2

\* time.Now().Unix()
Unix(ms) == ms \div MsPerSecond

NoEvent == [stage |-> "none", timestamp |-> 0, blockUnixtime |-> 0,
            latencyMs |-> 0]

NoHook == [sent |-> FALSE, blockUnixtime |-> 0, indexerUnixtime |-> 0,
           latencyMs |-> 0]

\* time passes
ClockTick ==
    /\ clock < MaxTicks * TickMs
    /\ clock' = clock + TickMs
    /\ UNCHANGED <<evt, hook>>
    /\ UNCHANGED <<flowVars, classifyVars, ingestVars, handleVars, cacheVars,
                   discoverVars, jettonVars, notifyVars>>

\* processShard: blockUnixtime := time.Now().Unix(), and for a deploy with
\* transaction time txNow the Event{Timestamp: time.Unix(txNow, 0),
\* BlockUnixtime: blockUnixtime}
EmitEvent ==
    /\ evt.stage = "none"
    /\ \E txNow \in 0..Unix(clock) :
         evt' = [stage |-> "event", timestamp |-> txNow,
                 blockUnixtime |-> Unix(clock), latencyMs |-> 0]
    /\ UNCHANGED <<clock, hook>>
    /\ UNCHANGED <<flowVars, classifyVars, ingestVars, handleVars, cacheVars,
                   discoverVars, jettonVars, notifyVars>>

\* Handle: meta.DetectionLatencyMs = time.Since(event.Timestamp).Milliseconds()
HandleLatency ==
    /\ evt.stage = "event"
    /\ evt' = [evt EXCEPT !.stage = "meta",
                          !.latencyMs = clock - (evt.timestamp * MsPerSecond)]
    /\ UNCHANGED <<clock, hook>>
    /\ UNCHANGED <<flowVars, classifyVars, ingestVars, handleVars, cacheVars,
                   discoverVars, jettonVars, notifyVars>>

\* webhookExtended: the MetaInfo of the payload
WebhookMeta ==
    /\ evt.stage = "meta"
    /\ hook' = [sent |-> TRUE, blockUnixtime |-> evt.blockUnixtime,
                indexerUnixtime |-> Unix(clock), latencyMs |-> evt.latencyMs]
    /\ evt' = NoEvent
    /\ UNCHANGED clock
    /\ UNCHANGED <<flowVars, classifyVars, ingestVars, handleVars, cacheVars,
                   discoverVars, jettonVars, notifyVars>>

LatencyIdle ==
    /\ clock = 0
    /\ evt = NoEvent
    /\ hook = NoHook

-----------------------------------------------------------------------------
(* SpecNotify: Notifier.NotifyWithEvent under the context of Handle; times  *)
(* in seconds                                                               *)

\* Handle: context.WithTimeout(context.Background(), 5*time.Second)
HandleTimeout == 5

\* notifier.New: &http.Client{Timeout: 5 * time.Second}
HttpTimeout == 5

Min(a, b) == IF a < b THEN a ELSE b

\* HTTP status codes a sink answers with
StatusCodes == {200, 500}

\* n.httpClient.Do(req) with req bound to ctx: left is the time ctx still
\* has, t the time the server takes to answer, status its answer. The
\* result and the time the call took.
Do(left, t, status) ==
    IF left = 0 THEN [result |-> "ctx_done", took |-> 0]
    ELSE IF t < Min(HttpTimeout, left)
         THEN [result |-> IF status >= 300 THEN "status" ELSE "sent",
               took |-> t]
         ELSE [result |-> "timeout", took |-> Min(HttpTimeout, left)]

NtIdle == [pc |-> "idle", tgOn |-> FALSE, whOn |-> FALSE, startLeft |-> 0,
           left |-> 0, tg |-> "none", wh |-> "none", whBudget |-> 0]

\* Handle reaches p.notifier.NotifyWithEvent(ctx, meta, &event) after the
\* earlier calls have used part of the 5 seconds of ctx; console output
NotifyWithEvent ==
    /\ nt.pc \in {"idle", "done"}
    /\ \E tgOn \in BOOLEAN, whOn \in BOOLEAN, used \in 0..HandleTimeout :
         nt' = [NtIdle EXCEPT !.pc = "telegram", !.tgOn = tgOn, !.whOn = whOn,
                              !.startLeft = HandleTimeout - used,
                              !.left = HandleTimeout - used]
    /\ UNCHANGED <<flowVars, classifyVars, ingestVars, handleVars, cacheVars,
                   discoverVars, jettonVars, latencyVars>>

\* NotifyWithEvent: n.telegram(ctx, meta) if configured, its error logged
Telegram ==
    /\ nt.pc = "telegram"
    /\ IF nt.tgOn
       THEN \E t \in 0..MaxResponse, status \in StatusCodes :
              LET r == Do(nt.left, t, status)
              IN  nt' = [nt EXCEPT !.pc = "webhook", !.tg = r.result,
                                   !.left = nt.left - r.took]
       ELSE nt' = [nt EXCEPT !.pc = "webhook"]
    /\ UNCHANGED <<flowVars, classifyVars, ingestVars, handleVars, cacheVars,
                   discoverVars, jettonVars, latencyVars>>

\* NotifyWithEvent: n.webhookExtended(ctx, meta, event) if configured, its
\* error logged; whBudget is the time the request was allowed to take
Webhook ==
    /\ nt.pc = "webhook"
    /\ IF nt.whOn
       THEN \E t \in 0..MaxResponse, status \in StatusCodes :
              LET r == Do(nt.left, t, status)
              IN  nt' = [nt EXCEPT !.pc = "done", !.wh = r.result,
                                   !.whBudget = Min(HttpTimeout, nt.left),
                                   !.left = nt.left - r.took]
       ELSE nt' = [nt EXCEPT !.pc = "done"]
    /\ UNCHANGED <<flowVars, classifyVars, ingestVars, handleVars, cacheVars,
                   discoverVars, jettonVars, latencyVars>>

NotifyIdle == nt = NtIdle

-----------------------------------------------------------------------------
(* SpecStop: Service.Start / Stop, Subscribe and the handler under the root *)
(* context runCtx of the service                                            *)

\* app.catchup_hours values of the configuration
CatchupHours == {0, 24}

\* Processor.Handle: context.WithTimeout(context.Background(), 5*time.Second)
HandleParent == "background"

\* <-ctx.Done() is ready: Service.Stop cancels runCtx and what derives from it
CtxDone(parent, cancelled) == parent = "root" /\ cancelled

\* the inner loop altered: it begins at lastSeqno itself
FirstSeqno_Inclusive(lastSeqno) == lastSeqno

\* Subscribe: for seqno := lastSeqno + 1; ...
FirstSeqno(lastSeqno) == lastSeqno + 1

RtIdle == [pc |-> "new", cancelled |-> FALSE, catchupHours |-> 0,
           passes |-> <<>>, head |-> 1, lastMC |-> 0, lastSeqno |-> 0,
           newMaster |-> 0, seqno |-> 0, startHead |-> 0, events |-> 0,
           err |-> "none"]

HcIdle == [pc |-> "idle", io |-> 0]

\* the liteservers produce a new masterchain block
RtNewBlock ==
    /\ rt.head < MaxHead
    /\ rt' = [rt EXCEPT !.head = @ + 1]
    /\ UNCHANGED <<rtLog, rtEmit, hc>>
    /\ UNCHANGED <<fetchVars, deadlineVars, poolVars, workerVars, pageVars, statsVars,
                   classifyVars, ingestVars, handleVars, cacheVars,
                   discoverVars, jettonVars, latencyVars, notifyVars,
                   lookupVars,
                   retryVars>>

\* Service.Start: client.Start(runCtx), then go s.runRealtime(runCtx); no
\* other pass is started, whatever app.catchup_hours is
RtStart ==
    /\ rt.pc = "new"
    /\ \/ rt' = [rt EXCEPT !.pc = "failed"]
       \/ rt' = [rt EXCEPT !.pc = "start", !.passes = Append(@, "realtime")]
    /\ UNCHANGED <<rtLog, rtEmit, hc>>
    /\ UNCHANGED <<fetchVars, deadlineVars, poolVars, workerVars, pageVars, statsVars,
                   classifyVars, ingestVars, handleVars, cacheVars,
                   discoverVars, jettonVars, latencyVars, notifyVars,
                   lookupVars,
                   retryVars>>

\* Service.Stop: s.cancel()
RtStop ==
    /\ rt.pc \notin {"new", "failed"}
    /\ ~rt.cancelled
    /\ rt' = [rt EXCEPT !.cancelled = TRUE]
    /\ UNCHANGED <<rtLog, rtEmit, hc>>
    /\ UNCHANGED <<fetchVars, deadlineVars, poolVars, workerVars, pageVars, statsVars,
                   classifyVars, ingestVars, handleVars, cacheVars,
                   discoverVars, jettonVars, latencyVars, notifyVars,
                   lookupVars,
                   retryVars>>

\* Subscribe up to the main loop: CurrentMasterchainInfo(ctx) fails and the
\* wrapped error is returned, or lastMC := master.SeqNo
RtSubscribe ==
    /\ rt.pc = "start"
    /\ \/ rt' = [rt EXCEPT !.pc = "returned", !.err = "wrapped"]
       \/ /\ ~CtxDone("root", rt.cancelled)
          /\ rt' = [rt EXCEPT !.pc = "select", !.lastMC = rt.head,
                              !.startHead = rt.head]
    /\ UNCHANGED <<rtLog, rtEmit, hc>>
    /\ UNCHANGED <<fetchVars, deadlineVars, poolVars, workerVars, pageVars, statsVars,
                   classifyVars, ingestVars, handleVars, cacheVars,
                   discoverVars, jettonVars, latencyVars, notifyVars,
                   lookupVars,
                   retryVars>>

\* top of the main loop: select { case <-ctx.Done(): return ctx.Err() default: }
RtSelect ==
    /\ rt.pc = "select"
    /\ rt' = IF CtxDone("root", rt.cancelled)
             THEN [rt EXCEPT !.pc = "returned", !.err = "ctx"]
             ELSE [rt EXCEPT !.pc = "poll"]
    /\ UNCHANGED <<rtLog, rtEmit, hc>>
    /\ UNCHANGED <<fetchVars, deadlineVars, poolVars, workerVars, pageVars, statsVars,
                   classifyVars, ingestVars, handleVars, cacheVars,
                   discoverVars, jettonVars, latencyVars, notifyVars,
                   lookupVars,
                   retryVars>>

\* CurrentMasterchainInfo(ctx): an error (always, once ctx is done) sleeps and
\* continues; otherwise the inner loop is entered if the head moved, and the
\* loop sleeps if it did not
RtPoll ==
    /\ rt.pc = "poll"
    /\ \/ rt' = [rt EXCEPT !.pc = "select"]
       \/ /\ ~CtxDone("root", rt.cancelled)
          /\ rt' = IF rt.head > rt.lastMC
                   THEN [rt EXCEPT !.pc = "loop", !.lastSeqno = rt.lastMC,
                                   !.newMaster = rt.head,
                                   !.seqno = FirstSeqno(rt.lastMC)]
                   ELSE [rt EXCEPT !.pc = "select"]
    /\ UNCHANGED <<rtLog, rtEmit, hc>>
    /\ UNCHANGED <<fetchVars, deadlineVars, poolVars, workerVars, pageVars, statsVars,
                   classifyVars, ingestVars, handleVars, cacheVars,
                   discoverVars, jettonVars, latencyVars, notifyVars,
                   lookupVars,
                   retryVars>>

\* inner loop, seqno <= newMaster.SeqNo: processBlock(ctx, seqno, handler) is
\* called without looking at ctx
RtProcessBlock ==
    /\ rt.pc = "loop"
    /\ rt.seqno <= rt.newMaster
    /\ rt' = [rt EXCEPT !.pc = "block", !.events = 0]
    /\ rtLog' = Append(rtLog, [seqno |-> rt.seqno,
                               cancelled |-> CtxDone("root", rt.cancelled)])
    /\ UNCHANGED <<rtEmit, hc>>
    /\ UNCHANGED <<fetchVars, deadlineVars, poolVars, workerVars, pageVars, statsVars,
                   classifyVars, ingestVars, handleVars, cacheVars,
                   discoverVars, jettonVars, latencyVars, notifyVars,
                   lookupVars,
                   retryVars>>

\* processShard: GetTransaction(ctx, ...) answered, the transaction is a
\* deploy and handler(event) is called with Seqno = mcSeqno
RtHandler ==
    /\ rt.pc = "block"
    /\ hc.pc = "idle"
    /\ rt.events < MaxTx
    /\ ~CtxDone("root", rt.cancelled)
    /\ rt' = [rt EXCEPT !.events = @ + 1]
    /\ rtEmit' = rtEmit \cup {rt.seqno}
    /\ hc' = [pc |-> "IsMinterKnown", io |-> 0]
    /\ UNCHANGED rtLog
    /\ UNCHANGED <<fetchVars, deadlineVars, poolVars, workerVars, pageVars, statsVars,
                   classifyVars, ingestVars, handleVars, cacheVars,
                   discoverVars, jettonVars, latencyVars, notifyVars,
                   lookupVars,
                   retryVars>>

\* Handle: its next blocking call, issued on Handle's own ctx. HandleCalls
\* are the blocking calls in program order and where each may lead;
\* AfterDone is where a call issued on a context that is done leads: the
\* cache error is logged and seen stays false, GetCodeHash's error drops the
\* event, a failed get_jetton_data leaves a known fingerprint on its way.
\* io counts the calls that did their I/O after the root was cancelled.
RtHandleCall ==
    /\ hc.pc # "idle"
    /\ LET HandleCalls ==
             [IsMinterKnown  |-> {"GetCodeHash", "RunGetMethod", "idle"},
              GetCodeHash    |-> {"RunGetMethod", "idle"},
              RunGetMethod   |-> {"RememberMinter", "idle"},
              RememberMinter |-> {"Telegram"},
              Telegram       |-> {"Webhook"},
              Webhook        |-> {"idle"}]
           AfterDone ==
             [HandleCalls EXCEPT !.IsMinterKnown = {"GetCodeHash", "RunGetMethod"},
                                 !.GetCodeHash = {"idle"}]
           ctxDone == CtxDone(HandleParent, rt.cancelled)
       IN  \E to \in (IF ctxDone THEN AfterDone[hc.pc] ELSE HandleCalls[hc.pc]) :
             hc' = [pc |-> to,
                    io |-> IF ~ctxDone /\ rt.cancelled THEN hc.io + 1 ELSE hc.io]
    /\ UNCHANGED <<rt, rtLog, rtEmit>>
    /\ UNCHANGED <<fetchVars, deadlineVars, poolVars, workerVars, pageVars, statsVars,
                   classifyVars, ingestVars, handleVars, cacheVars,
                   discoverVars, jettonVars, latencyVars, notifyVars,
                   lookupVars,
                   retryVars>>

\* processBlock returns (wg.Wait is over); its error is only logged, seqno++
RtBlockReturn ==
    /\ rt.pc = "block"
    /\ hc.pc = "idle"
    /\ rt' = [rt EXCEPT !.pc = "loop", !.seqno = @ + 1]
    /\ UNCHANGED <<rtLog, rtEmit, hc>>
    /\ UNCHANGED <<fetchVars, deadlineVars, poolVars, workerVars, pageVars, statsVars,
                   classifyVars, ingestVars, handleVars, cacheVars,
                   discoverVars, jettonVars, latencyVars, notifyVars,
                   lookupVars,
                   retryVars>>

\* the inner loop is over: c.lastMC = newMaster.SeqNo, then sleep
RtAdvance ==
    /\ rt.pc = "loop"
    /\ rt.seqno > rt.newMaster
    /\ rt' = [rt EXCEPT !.pc = "select", !.lastMC = AdvanceTo(rt.newMaster)]
    /\ UNCHANGED <<rtLog, rtEmit, hc>>
    /\ UNCHANGED <<fetchVars, deadlineVars, poolVars, workerVars, pageVars, statsVars,
                   classifyVars, ingestVars, handleVars, cacheVars,
                   discoverVars, jettonVars, latencyVars, notifyVars,
                   lookupVars,
                   retryVars>>

StopIdle ==
    /\ rt = RtIdle
    /\ rtLog = <<>>
    /\ rtEmit = {}
    /\ hc = HcIdle

-----------------------------------------------------------------------------
(* SpecFetch: one Processor.Handle call at a time (the current processor),  *)
(* from the event to the return                                             *)

\* what the calls made by one Handle come to (code 0: GetCodeHash fails)
FetchOutcomes ==
    [known : CacheOutcomes, remember : CacheOutcomes, code : 0..NumCells,
     reply : Replies]

\* the fallback altered: the code hash of the event is used as it came
EventCodeHash_NoFallback(ev, code) == ev.codeHash

\* Handle: codeHash := event.CodeHash; if it is empty, GetCodeHash, whose
\* error (code 0) leaves nothing to go on
EventCodeHash(ev, code) ==
    IF ev.codeHash # <<>> THEN ev.codeHash
    ELSE IF code = 0 THEN <<>>
    ELSE EncodeToString(CellHash(code))

\* the cache write altered: it is undone when no sink took the discovery
Remembered_UndoneOnFailure(keys, address, o) ==
    IF o.remember = "ok" /\ o.sinks = "sent" THEN MinterSet(keys, address)
    ELSE keys

\* Handle: p.cache.RememberMinter(ctx, meta.Address), its error only logged;
\* nothing after it removes the key
Remembered(keys, address, o) ==
    IF o.remember = "ok" THEN MinterSet(keys, address) ELSE keys

FetchReturn(keys, reg) ==
    [minters |-> keys, codeHashes |-> reg, notified |-> 0, err |-> FALSE,
     codeHash |-> <<>>]

\* Processor.Handle: the minter keys and the registry afterwards, how often
\* NotifyWithEvent was called, the error returned and meta.CodeHash
HandleRun(keys, reg, ev, o) ==
    IF ~ev.isDeploy THEN FetchReturn(keys, reg)
    ELSE
    LET seen     == o.known = "ok" /\ MinterExists(keys, ev.addr)
        fetchErr == ev.codeHash = <<>> /\ o.code = 0
        codeHash == ToLower(EventCodeHash(ev, o.code))
        known    == IsKnownCodeHash(reg, codeHash)
        verified == InterfaceVerified(o.reply)
    IN  IF seen \/ fetchErr \/ NotJettonMinter(known, verified)
        THEN FetchReturn(keys, reg)
        ELSE [minters    |-> Remembered(keys, ev.addr, o),
              codeHashes |-> IF verified /\ ~known
                             THEN AddCodeHash(reg, codeHash, AutoLabel)
                             ELSE reg,
              notified   |-> 1,
              err        |-> FALSE,
              codeHash   |-> codeHash]

\* the calls Handle does not reach have no outcome: o names "ok", code 0
\* and the error reply for them
Reached(keys, reg, ev, o) ==
    LET seen     == o.known = "ok" /\ MinterExists(keys, ev.addr)
        fetch    == ev.isDeploy /\ ~seen /\ ev.codeHash = <<>>
        inspect  == ev.isDeploy /\ ~seen /\ ~(fetch /\ o.code = 0)
        accepted == inspect /\
                    ~NotJettonMinter(
                        IsKnownCodeHash(reg, EventCodeHash(ev, o.code)),
                        InterfaceVerified(o.reply))
    IN  /\ ~ev.isDeploy => o.known = "ok"
        /\ ~fetch => o.code = 0
        /\ ~inspect => o.reply.err
        /\ ~accepted => o.remember = "ok"

NoHandle == [called |-> FALSE, deploy |-> FALSE, empty |-> FALSE,
             code |-> 0, reply |-> [err |-> TRUE, len |-> 0],
             remember |-> "ok", inCache |-> FALSE, known |-> FALSE,
             stored |-> FALSE, notified |-> 0, err |-> FALSE,
             codeHash |-> <<>>]

\* one complete Handle call
HandleOnce ==
    /\ \E ev \in Events, o \in FetchOutcomes :
         LET r == HandleRun(minters, codeHashes, ev, o)
         IN  /\ Reached(minters, codeHashes, ev, o)
             /\ minters' = r.minters
             /\ codeHashes' = r.codeHashes
             /\ hr' = [called |-> TRUE, deploy |-> ev.isDeploy,
                       empty |-> ev.codeHash = <<>>, code |-> o.code,
                       reply |-> o.reply, remember |-> o.remember,
                       inCache |-> MinterExists(minters, ev.addr),
                       known |-> IsKnownCodeHash(codeHashes,
                                                 EventCodeHash(ev, o.code)),
                       stored |-> MinterExists(r.minters, ev.addr),
                       notified |-> r.notified, err |-> r.err,
                       codeHash |-> r.codeHash]
    /\ UNCHANGED <<stopVars, deadlineVars, poolVars, workerVars, pageVars, statsVars,
                   lookupVars,
                   retryVars>>
    /\ UNCHANGED <<classifyVars, ingestVars, cacheVars, hw, sunk,
                   cacheErrSeen, fatal,
                   discoverVars, jettonVars, latencyVars, notifyVars>>

FetchIdle == hr = NoHandle

-----------------------------------------------------------------------------
(* SpecDeadline: the contexts of one processBlock call; times in seconds    *)
(* since the call                                                           *)

\* client.go: blockTimeout = 5 * time.Second
blockTimeout == 5

\* the ctx Subscribe passes on: cancellable, without a deadline
NoDeadline == [set |-> FALSE, at |-> 0]

\* context.WithTimeout(parent, timeout) called at time now
WithTimeout(parent, now, timeout) ==
    [set |-> TRUE,
     at  |-> IF parent.set THEN Min(parent.at, now + timeout)
             ELSE now + timeout]

\* processBlock's worker: context.WithTimeout(ctx, blockTimeout), where ctx is
\* the parameter of processBlock, not blockCtx
ShardParent(ctx, blockCtx) == ctx

\* a liteserver request issued at now on ctx and answered after t: it fails
\* at once on a context that is done, and at the deadline if that comes first
Request(ctx, now, t) ==
    IF ctx.set /\ now >= ctx.at THEN [ok |-> FALSE, start |-> now, end |-> now]
    ELSE IF ctx.set /\ now + t >= ctx.at
         THEN [ok |-> FALSE, start |-> now, end |-> ctx.at]
         ELSE [ok |-> TRUE, start |-> now, end |-> now + t]

DlIdle == [pc |-> "idle", now |-> 0, blockCtx |-> NoDeadline,
           shardCtx |-> NoDeadline, refs |-> 0,
           req |-> [issued |-> FALSE, ok |-> FALSE, start |-> 0, end |-> 0]]

\* processBlock: blockCtx, cancel := context.WithTimeout(ctx, blockTimeout)
DlProcessBlock ==
    /\ dl.pc = "idle"
    /\ dl' = [DlIdle EXCEPT !.pc = "lookup",
                            !.blockCtx = WithTimeout(NoDeadline, 0, blockTimeout)]
    /\ UNCHANGED <<stopVars, fetchVars, poolVars, workerVars, pageVars, statsVars,
                   lookupVars,
                   retryVars>>
    /\ UNCHANGED <<classifyVars, ingestVars, handleVars, cacheVars,
                   discoverVars, jettonVars, latencyVars, notifyVars>>

\* c.api.LookupBlock(blockCtx, ...): an error returns from processBlock
DlLookupBlock ==
    /\ dl.pc = "lookup"
    /\ \E t \in 0..MaxResponse :
         LET r == Request(dl.blockCtx, dl.now, t)
         IN  dl' = [dl EXCEPT !.now = r.end,
                              !.pc = IF r.ok THEN "shards" ELSE "idle"]
    /\ UNCHANGED <<stopVars, fetchVars, poolVars, workerVars, pageVars, statsVars,
                   lookupVars,
                   retryVars>>
    /\ UNCHANGED <<classifyVars, ingestVars, handleVars, cacheVars,
                   discoverVars, jettonVars, latencyVars, notifyVars>>

\* c.api.GetBlockShardsInfo(blockCtx, masterInfo), then the refs are queued
DlGetBlockShardsInfo ==
    /\ dl.pc = "shards"
    /\ \E t \in 0..MaxResponse, n \in 0..MaxShards :
         LET r == Request(dl.blockCtx, dl.now, t)
         IN  dl' = [dl EXCEPT !.now = r.end,
                              !.pc = IF r.ok THEN "recv" ELSE "idle",
                              !.refs = IF r.ok THEN n + 1 ELSE 0]
    /\ UNCHANGED <<stopVars, fetchVars, poolVars, workerVars, pageVars, statsVars,
                   lookupVars,
                   retryVars>>
    /\ UNCHANGED <<classifyVars, ingestVars, handleVars, cacheVars,
                   discoverVars, jettonVars, latencyVars, notifyVars>>

\* worker: for shard := range shardChan { shardCtx := WithTimeout(...) };
\* with the channel drained the worker exits and processBlock returns nil
DlWorkerRecv ==
    /\ dl.pc = "recv"
    /\ dl' = IF dl.refs > 0
             THEN [dl EXCEPT !.pc = "list", !.refs = @ - 1,
                             !.shardCtx =
                                WithTimeout(ShardParent(NoDeadline, dl.blockCtx),
                                            dl.now, blockTimeout)]
             ELSE [dl EXCEPT !.pc = "idle"]
    /\ UNCHANGED <<stopVars, fetchVars, poolVars, workerVars, pageVars, statsVars,
                   lookupVars,
                   retryVars>>
    /\ UNCHANGED <<classifyVars, ingestVars, handleVars, cacheVars,
                   discoverVars, jettonVars, latencyVars, notifyVars>>

\* processShard(shardCtx, ...): GetBlockTransactionsV2, whose error ends the
\* shard, then GetTransaction, whose error is skipped
DlShardRequest ==
    /\ dl.pc \in {"list", "tx"}
    /\ \E t \in 0..MaxResponse :
         LET r == Request(dl.shardCtx, dl.now, t)
         IN  dl' = [dl EXCEPT !.now = r.end,
                              !.req = [issued |-> TRUE, ok |-> r.ok,
                                       start |-> r.start, end |-> r.end],
                              !.pc = IF dl.pc = "list" /\ r.ok THEN "tx"
                                     ELSE "recv"]
    /\ UNCHANGED <<stopVars, fetchVars, poolVars, workerVars, pageVars, statsVars,
                   lookupVars,
                   retryVars>>
    /\ UNCHANGED <<classifyVars, ingestVars, handleVars, cacheVars,
                   discoverVars, jettonVars, latencyVars, notifyVars>>

DeadlineIdle == dl = DlIdle

-----------------------------------------------------------------------------
(* SpecPool: the worker pool of one processBlock call, with its channel     *)

\* the most shards a block of this specification reports
MaxPoolShards == 2

\* the channel altered: a buffer of one
ChanCap_One(n) == 1

\* processBlock: make(chan *ton.BlockIDExt, len(shards)+1)
ChanCap(n) == n + 1

\* the refs of a block with n shards: the master block, then its shards
Refs(n) == 0..n

PlIdle == [pc |-> "idle", n |-> 0, sent |-> 0, shardChan |-> <<>>,
           closed |-> FALSE, blocked |-> FALSE,
           count |-> [r \in Refs(MaxPoolShards) |-> 0],
           by |-> [r \in Refs(MaxPoolShards) |-> {}]]

\* processBlock after GetBlockShardsInfo returned n shards: the channel is
\* made and numWorkers goroutines are started
PlStart ==
    /\ pl.pc \in {"idle", "returned"}
    /\ \E n \in 0..MaxPoolShards :
         /\ pl' = [PlIdle EXCEPT !.pc = "send", !.n = n]
         /\ pw' = [w \in 1..numWorkers(n) |-> [pc |-> "recv", ref |-> 0]]
    /\ UNCHANGED <<stopVars, fetchVars, deadlineVars, workerVars, pageVars, statsVars,
                   lookupVars,
                   retryVars>>
    /\ UNCHANGED <<classifyVars, ingestVars, handleVars, cacheVars,
                   discoverVars, jettonVars, latencyVars, notifyVars>>

\* shardChan <- masterInfo; for _, shard := range shards { shardChan <- shard }:
\* a send on a full channel blocks until a worker receives
PlSend ==
    /\ pl.pc = "send"
    /\ pl.sent <= pl.n
    /\ pl' = IF Len(pl.shardChan) < ChanCap(pl.n)
             THEN [pl EXCEPT !.shardChan = Append(@, IF pl.sent = 0 THEN MasterRef
                                                     ELSE pl.sent),
                             !.sent = @ + 1]
             ELSE [pl EXCEPT !.blocked = TRUE]
    /\ UNCHANGED pw
    /\ UNCHANGED <<stopVars, fetchVars, deadlineVars, workerVars, pageVars, statsVars,
                   lookupVars,
                   retryVars>>
    /\ UNCHANGED <<classifyVars, ingestVars, handleVars, cacheVars,
                   discoverVars, jettonVars, latencyVars, notifyVars>>

\* close(shardChan), then wg.Wait()
PlClose ==
    /\ pl.pc = "send"
    /\ pl.sent > pl.n
    /\ pl' = [pl EXCEPT !.pc = "wait", !.closed = TRUE]
    /\ UNCHANGED pw
    /\ UNCHANGED <<stopVars, fetchVars, deadlineVars, workerVars, pageVars, statsVars,
                   lookupVars,
                   retryVars>>
    /\ UNCHANGED <<classifyVars, ingestVars, handleVars, cacheVars,
                   discoverVars, jettonVars, latencyVars, notifyVars>>

\* worker: for shard := range shardChan; the loop ends when the channel is
\* closed and drained (defer wg.Done)
PwRecv(w) ==
    /\ pl.pc \in {"send", "wait"}
    /\ pw[w].pc = "recv"
    /\ \/ /\ pl.shardChan # <<>>
          /\ pw' = [pw EXCEPT ![w] = [pc |-> "shard", ref |-> Head(pl.shardChan)]]
          /\ pl' = [pl EXCEPT !.shardChan = Tail(@)]
       \/ /\ pl.shardChan = <<>>
          /\ pl.closed
          /\ pw' = [pw EXCEPT ![w] = [pc |-> "exit", ref |-> 0]]
          /\ UNCHANGED pl
    /\ UNCHANGED <<stopVars, fetchVars, deadlineVars, workerVars, pageVars, statsVars,
                   lookupVars,
                   retryVars>>
    /\ UNCHANGED <<classifyVars, ingestVars, handleVars, cacheVars,
                   discoverVars, jettonVars, latencyVars, notifyVars>>

\* worker: c.processShard(shardCtx, shard, seqno, handler), error or not
PwProcessShard(w) ==
    /\ pw[w].pc = "shard"
    /\ pl' = [pl EXCEPT !.count[pw[w].ref] = @ + 1,
                        !.by[pw[w].ref] = @ \cup {w}]
    /\ pw' = [pw EXCEPT ![w].pc = "recv"]
    /\ UNCHANGED <<stopVars, fetchVars, deadlineVars, workerVars, pageVars, statsVars,
                   lookupVars,
                   retryVars>>
    /\ UNCHANGED <<classifyVars, ingestVars, handleVars, cacheVars,
                   discoverVars, jettonVars, latencyVars, notifyVars>>

\* wg.Wait() is over: return nil
PlReturn ==
    /\ pl.pc = "wait"
    /\ \A w \in DOMAIN pw : pw[w].pc = "exit"
    /\ pl' = [pl EXCEPT !.pc = "returned"]
    /\ UNCHANGED pw
    /\ UNCHANGED <<stopVars, fetchVars, deadlineVars, workerVars, pageVars, statsVars,
                   lookupVars,
                   retryVars>>
    /\ UNCHANGED <<classifyVars, ingestVars, handleVars, cacheVars,
                   discoverVars, jettonVars, latencyVars, notifyVars>>

\* a step of the running processBlock call
PoolStep ==
    \/ PlSend
    \/ PlClose
    \/ \E w \in DOMAIN pw : PwRecv(w)
    \/ \E w \in DOMAIN pw : PwProcessShard(w)
    \/ PlReturn

PoolIdle == pl = PlIdle /\ pw = <<>>

-----------------------------------------------------------------------------
(* SpecWorkers: the size of the worker pool, for every GOMAXPROCS           *)

\* the largest GOMAXPROCS and the most shards of a block drawn here
MaxProcs == 17
MaxBlockShards == 65

WcIdle == [pc |-> "idle", procs |-> 1, shardWorkers |-> 0, shards |-> 0,
           started |-> 0]

\* NewIndexerClient on a machine with wc.procs usable cores
WcNewIndexerClient ==
    /\ wc.pc = "new"
    /\ wc' = [wc EXCEPT !.pc = "ready", !.shardWorkers = NewIndexerClient(wc.procs)]
    /\ UNCHANGED <<stopVars, fetchVars, deadlineVars, poolVars, pageVars, statsVars,
                   lookupVars,
                   retryVars>>
    /\ UNCHANGED <<classifyVars, ingestVars, handleVars, cacheVars,
                   discoverVars, jettonVars, latencyVars, notifyVars>>

\* processBlock for a block of n shards: numWorkers goroutines are started
WcProcessBlock ==
    /\ wc.pc \in {"ready", "started"}
    /\ \E n \in 0..MaxBlockShards :
         wc' = [wc EXCEPT !.pc = "started", !.shards = n,
                          !.started = NumWorkersOf(wc.shardWorkers, n)]
    /\ UNCHANGED <<stopVars, fetchVars, deadlineVars, poolVars, pageVars, statsVars,
                   lookupVars,
                   retryVars>>
    /\ UNCHANGED <<classifyVars, ingestVars, handleVars, cacheVars,
                   discoverVars, jettonVars, latencyVars, notifyVars>>

WorkersIdle == wc = WcIdle

-----------------------------------------------------------------------------
(* SpecPage: processShard page by page                                      *)

\* the most transactions of a shard block drawn here
MaxShardTx == 3

\* the most GetBlockTransactionsV2 requests of one processShard call followed
MaxRequests == 4

\* processShard: the count passed to GetBlockTransactionsV2
PageSize == 100

\* the ids of a shard block are 1..n in (account, lt) order; cursor 0 is nil
PgIdle == [pc |-> "idle", n |-> 0, after |-> 0, asked |-> <<>>,
           pageEnds |-> <<>>, fetchedIDs |-> <<>>, i |-> 1,
           tried |-> <<>>, loadFailed |-> {}, classified |-> <<>>,
           handled |-> <<>>, handlerErrs |-> {}, err |-> FALSE,
           before |-> [minters |-> {}, codeHashes |-> NewDetectorHashes,
                       sunk |-> [a \in Addrs |-> 0]]]

\* the ids from..to as a sequence
IdRange(from, to) == [j \in 1..(to - from + 1) |-> from + j - 1]

\* the cursor altered: the first id of the page
NextCursor_First(after, ids, hasMore) ==
    IF Len(ids) > 0 /\ hasMore THEN ids[1] ELSE after

\* processShard: after = last id of the page, when the page has ids and
\* more are announced
NextCursor(after, ids, hasMore) ==
    IF Len(ids) > 0 /\ hasMore THEN ids[Len(ids)] ELSE after

\* the error return altered: what was fetched so far is still loaded
AfterList_LoadFetched(failed, hasMore, all) ==
    IF failed THEN (IF all = <<>> THEN "done" ELSE "load")
    ELSE IF hasMore THEN "list"
    ELSE IF all = <<>> THEN "done" ELSE "load"

\* processShard: where it goes after a GetBlockTransactionsV2 request: an
\* error returns, hasMore asks again, otherwise the loop over fetchedIDs
AfterList(failed, hasMore, all) ==
    IF failed THEN "done"
    ELSE IF hasMore THEN "list"
    ELSE IF all = <<>> THEN "done" ELSE "load"

\* the loop altered: a failed transaction ends it
AfterTx_Abort(i, all, failed) ==
    IF failed \/ i = Len(all) THEN "done" ELSE "load"

\* processShard: the loop over fetchedIDs goes on after every transaction,
\* failed (continue, or the handler's error logged) or not
AfterTx(i, all, failed) == IF i = Len(all) THEN "done" ELSE "load"

\* processShard is called for a shard block of n transactions
PgProcessShard ==
    /\ pg.pc \in {"idle", "done"}
    /\ \E n \in 0..MaxShardTx :
         pg' = [PgIdle EXCEPT !.pc = "list", !.n = n,
                              !.before = [minters |-> minters,
                                          codeHashes |-> codeHashes,
                                          sunk |-> sunk]]
    /\ UNCHANGED <<stopVars, fetchVars, deadlineVars, poolVars, workerVars,
                   statsVars,
                   lookupVars,
                   retryVars>>
    /\ UNCHANGED <<classifyVars, ingestVars, handleVars, cacheVars,
                   discoverVars, jettonVars, latencyVars, notifyVars>>

\* processShard: one pass of the `for more` loop. The request fails and
\* processShard returns the error, or the liteserver returns up to PageSize
\* of the ids after the cursor (possibly none) and hasMore when ids are left
PgGetBlockTransactionsV2 ==
    /\ pg.pc = "list"
    /\ Len(pg.asked) < MaxRequests
    /\ LET req  == [count |-> PageSize, after |-> pg.after]
           left == pg.n - pg.after
       IN  \/ pg' = [pg EXCEPT !.pc = AfterList(TRUE, FALSE, pg.fetchedIDs),
                               !.err = TRUE,
                               !.asked = Append(@, req)]
           \/ \E k \in 0..Min(PageSize, left) :
                LET ids     == IdRange(pg.after + 1, pg.after + k)
                    hasMore == k < left
                    all     == pg.fetchedIDs \o ids
                IN  pg' = [pg EXCEPT
                      !.asked = Append(@, req),
                      !.pageEnds = Append(@, pg.after + k),
                      !.fetchedIDs = all,
                      !.after = NextCursor(pg.after, ids, hasMore),
                      !.pc = AfterList(FALSE, hasMore, all)]
    /\ UNCHANGED <<stopVars, fetchVars, deadlineVars, poolVars, workerVars,
                   statsVars,
                   lookupVars,
                   retryVars>>
    /\ UNCHANGED <<classifyVars, ingestVars, handleVars, cacheVars,
                   discoverVars, jettonVars, latencyVars, notifyVars>>

\* what GetTransaction and analyzeTransaction come to for one id
TxOutcomes == {"err", "nil", "plain", "deploy"}

\* the calls of a Handle that finds the cache and the liteserver in order
HealthyCalls ==
    [known |-> "ok", remember |-> "ok", code |-> 0,
     reply |-> [err |-> FALSE, len |-> 5]]

\* processShard: one pass of the loop over fetchedIDs. GetTransaction fails
\* or yields nil (continue), or the transaction goes to analyzeTransaction;
\* a deploy goes to the handler (Processor.Handle), whose error is logged
PgGetTransaction ==
    /\ pg.pc = "load"
    /\ LET id == pg.fetchedIDs[pg.i]
       IN  \E o \in TxOutcomes, herr \in BOOLEAN, a \in Addrs :
             LET ev == [addr |-> a, codeHash |-> EncodeToString(CellHash(1)),
                        isDeploy |-> TRUE]
                 r  == HandleRun(minters, codeHashes, ev, HealthyCalls)
                 failed == o \in {"err", "nil"} \/ (o = "deploy" /\ herr)
             IN  /\ o # "deploy" => (~herr /\ a = AddrStr(0, <<170>>))
                 /\ pg' = [pg EXCEPT
                      !.tried = Append(@, id),
                      !.loadFailed = IF o \in {"err", "nil"}
                                     THEN @ \cup {id} ELSE @,
                      !.classified = IF o \in {"plain", "deploy"}
                                     THEN Append(@, id) ELSE @,
                      !.handled = IF o = "deploy" THEN Append(@, id) ELSE @,
                      !.handlerErrs = IF o = "deploy" /\ herr
                                      THEN @ \cup {id} ELSE @,
                      !.i = @ + 1,
                      !.pc = AfterTx(pg.i, pg.fetchedIDs, failed)]
                 /\ IF o = "deploy"
                    THEN /\ minters' = r.minters
                         /\ codeHashes' = r.codeHashes
                         /\ sunk' = [sunk EXCEPT ![a] = @ + r.notified]
                    ELSE UNCHANGED <<minters, codeHashes, sunk>>
    /\ UNCHANGED <<stopVars, fetchVars, deadlineVars, poolVars, workerVars,
                   statsVars,
                   lookupVars,
                   retryVars>>
    /\ UNCHANGED <<classifyVars, ingestVars, hw, cacheErrSeen, fatal, cacheVars,
                   discoverVars, jettonVars, latencyVars, notifyVars>>

PageIdle == pg = PgIdle

-----------------------------------------------------------------------------
(* SpecStats: the counters of the processor under concurrent Handle calls   *)

\* the most deploy events handed to Handle
MaxHandled == 3

ScIdle == [totalProcessed |-> 0, totalDetected |-> 0, deploys |-> 0,
           minters |-> 0,
           g |-> [h \in Handlers |-> [pc |-> "idle", tmp |-> 0]]]

\* Handle is called with a deploy event by shard worker h (any other event
\* returns at once)
StHandle(h) ==
    /\ sc.g[h].pc = "idle"
    /\ sc.deploys < MaxHandled
    /\ sc' = [sc EXCEPT !.deploys = @ + 1, !.g[h].pc = "readProcessed"]
    /\ UNCHANGED <<stopVars, fetchVars, deadlineVars, poolVars, workerVars,
                   pageVars,
                   lookupVars,
                   retryVars>>
    /\ UNCHANGED <<classifyVars, ingestVars, handleVars, cacheVars,
                   discoverVars, jettonVars, latencyVars, notifyVars>>

\* p.totalProcessed++ and p.totalDetected++ are plain int64 increments: the
\* field is read ...
StRead(h) ==
    /\ sc.g[h].pc \in {"readProcessed", "readDetected"}
    /\ sc' = IF sc.g[h].pc = "readProcessed"
             THEN [sc EXCEPT !.g[h] = [pc |-> "writeProcessed",
                                       tmp |-> sc.totalProcessed]]
             ELSE [sc EXCEPT !.g[h] = [pc |-> "writeDetected",
                                       tmp |-> sc.totalDetected]]
    /\ UNCHANGED <<stopVars, fetchVars, deadlineVars, poolVars, workerVars,
                   pageVars,
                   lookupVars,
                   retryVars>>
    /\ UNCHANGED <<classifyVars, ingestVars, handleVars, cacheVars,
                   discoverVars, jettonVars, latencyVars, notifyVars>>

\* ... and the value read, plus one, is written back
StWrite(h) ==
    /\ sc.g[h].pc \in {"writeProcessed", "writeDetected"}
    /\ sc' = IF sc.g[h].pc = "writeProcessed"
             THEN [sc EXCEPT !.totalProcessed = sc.g[h].tmp + 1,
                             !.g[h] = [pc |-> "inspect", tmp |-> 0]]
             ELSE [sc EXCEPT !.totalDetected = sc.g[h].tmp + 1,
                             !.g[h] = [pc |-> "idle", tmp |-> 0]]
    /\ UNCHANGED <<stopVars, fetchVars, deadlineVars, poolVars, workerVars,
                   pageVars,
                   lookupVars,
                   retryVars>>
    /\ UNCHANGED <<classifyVars, ingestVars, handleVars, cacheVars,
                   discoverVars, jettonVars, latencyVars, notifyVars>>

\* Handle between the two counters: the event is dropped (address seen, no
\* code hash, not a minter) or a minter is detected
StInspect(h) ==
    /\ sc.g[h].pc = "inspect"
    /\ \E detected \in BOOLEAN :
         sc' = IF detected
               THEN [sc EXCEPT !.minters = @ + 1, !.g[h].pc = "readDetected"]
               ELSE [sc EXCEPT !.g[h].pc = "idle"]
    /\ UNCHANGED <<stopVars, fetchVars, deadlineVars, poolVars, workerVars,
                   pageVars,
                   lookupVars,
                   retryVars>>
    /\ UNCHANGED <<classifyVars, ingestVars, handleVars, cacheVars,
                   discoverVars, jettonVars, latencyVars, notifyVars>>

\* Processor.GetStats
GetStats == <<sc.totalProcessed, sc.totalDetected>>

StatsIdle == sc = ScIdle

-----------------------------------------------------------------------------
(* SpecLookup: lookups in the registry of known fingerprints, for queries   *)
(* in every letter case, with fingerprints added at runtime                 *)

UpperChar(c) ==
    IF \E i \in 1..Len(LowerLetters) : LowerLetters[i] = c
    THEN UpperLetters[CHOOSE i \in 1..Len(LowerLetters) : LowerLetters[i] = c]
    ELSE c

\* strings.ToUpper
ToUpper(s) == [i \in 1..Len(s) |-> UpperChar(s[i])]

\* a string with its first character in upper case
Title(s) == [i \in 1..Len(s) |-> IF i = 1 THEN UpperChar(s[i]) ELSE s[i]]

\* a string in the letter cases queried
Cases(s) == {s, ToUpper(s), Title(s)}

\* the strings looked up and added: the seeds and the hashes of the cells
Queries ==
    UNION {Cases(h) : h \in DOMAIN defaultCodeHashes \cup Fingerprints}

LkIdle == [called |-> FALSE, query |-> <<>>, known |-> FALSE,
           minterType |-> "", isMinter |-> FALSE]

\* Detector.AddCodeHash called at runtime (Handle does it for a fingerprint
\* verified by interface)
LkAddCodeHash ==
    /\ \E h \in UNION {Cases(f) : f \in Fingerprints} :
         codeHashes' = AddCodeHash(codeHashes, h, AutoLabel)
    /\ UNCHANGED lk
    /\ UNCHANGED <<stopVars, fetchVars, deadlineVars, poolVars, workerVars,
                   pageVars, statsVars,
                   retryVars>>
    /\ UNCHANGED <<classifyVars, ingestVars, minters, hw, sunk, cacheErrSeen,
                   fatal, cacheVars,
                   discoverVars, jettonVars, latencyVars, notifyVars>>

\* IsKnownCodeHash and GetMinterType of the detector of Handle, and
\* IsJettonMinter of the detector that offers Inspect, for one string
LkLookup ==
    /\ \E q \in Queries :
         lk' = [called |-> TRUE, query |-> q,
                known |-> IsKnownCodeHash(codeHashes, q),
                minterType |-> GetMinterType(codeHashes, q),
                isMinter |-> IsJettonMinter(inspectCodeHashes, q)]
    /\ UNCHANGED <<stopVars, fetchVars, deadlineVars, poolVars, workerVars,
                   pageVars, statsVars,
                   retryVars>>
    /\ UNCHANGED <<classifyVars, ingestVars, handleVars, cacheVars,
                   discoverVars, jettonVars, latencyVars, notifyVars>>

LookupIdle == lk = LkIdle

-----------------------------------------------------------------------------
(* SpecRetry: Handle calls for deploy events, one at a time, with the       *)
(* outcome of the sink deliveries                                           *)

\* NotifyWithEvent: some sink took the discovery, or every delivery failed
SinkOutcomes == {"sent", "failed"}

RhIdle == [called |-> FALSE, addr |-> <<>>, lookup |-> "ok", remember |-> "ok",
           sinks |-> "sent", inCache |-> FALSE, stored |-> FALSE,
           notified |-> 0, owed |-> <<>>, prevOwed |-> <<>>,
           prevStored |-> FALSE]

\* one complete Handle call for a deploy event whose fingerprint passes the
\* interface check; owed is the address when every sink delivery failed
RhHandle ==
    /\ \E a \in Addrs, known \in CacheOutcomes, remember \in CacheOutcomes,
          sinks \in SinkOutcomes :
         LET ev == [addr |-> a, codeHash |-> EncodeToString(CellHash(1)),
                    isDeploy |-> TRUE]
             o  == [known |-> known, remember |-> remember, code |-> 0,
                    reply |-> [err |-> FALSE, len |-> 5], sinks |-> sinks]
             r  == HandleRun(minters, codeHashes, ev, o)
         IN  /\ r.notified = 0 => (remember = "ok" /\ sinks = "sent")
             /\ minters' = r.minters
             /\ codeHashes' = r.codeHashes
             /\ rh' = [called |-> TRUE, addr |-> a, lookup |-> known,
                       remember |-> remember, sinks |-> sinks,
                       inCache |-> MinterExists(minters, a),
                       stored |-> MinterExists(r.minters, a),
                       notified |-> r.notified,
                       owed |-> IF r.notified = 1 /\ sinks = "failed"
                                THEN a ELSE <<>>,
                       prevOwed |-> rh.owed,
                       prevStored |-> rh.stored]
    /\ UNCHANGED <<stopVars, fetchVars, deadlineVars, poolVars, workerVars,
                   pageVars, statsVars, lookupVars>>
    /\ UNCHANGED <<classifyVars, ingestVars, cacheVars, hw, sunk,
                   cacheErrSeen, fatal,
                   discoverVars, jettonVars, latencyVars, notifyVars>>

RetryIdle == rh = RhIdle

FlowIdle ==
    /\ StopIdle /\ FetchIdle /\ DeadlineIdle /\ PoolIdle /\ WorkersIdle
    /\ PageIdle /\ StatsIdle /\ LookupIdle /\ RetryIdle

UnitIdle ==
    DiscoverIdle /\ JettonIdle /\ LatencyIdle /\ NotifyIdle /\ FlowIdle

-----------------------------------------------------------------------------
(* The specifications *)

ClassifyIdle == tx = NilTx /\ res = NoResult

IngestIdle ==
    /\ head = 0
    /\ lastMC = 0
    /\ sub = [SubStart EXCEPT !.pc = "stopped"]
    /\ pb = PbIdle
    /\ wk = <<>>
    /\ outcome = [s \in Seqnos |-> "none"]
    /\ procLog = <<>>
    /\ blockConns = {}
    /\ handed = {}

HandleIdle ==
    /\ minters = {}
    /\ codeHashes = NewDetectorHashes
    /\ hw = [g \in Handlers |-> HwIdle]
    /\ sunk = [a \in Addrs |-> 0]
    /\ cacheErrSeen = FALSE
    /\ fatal = FALSE

SeqnoIdle ==
    /\ seqnoSet = {}
    /\ last = NoCall
    /\ rs = [g \in Handlers |-> RsIdle]
    /\ ret = NoRet
    /\ inserted = {}
    /\ ttlLeft = [k \in MinterKeys |-> 0]
    /\ rem = NoRem
    /\ asked = NoAsk

Init == IngestInit /\ ClassifyIdle /\ HandleIdle /\ SeqnoIdle /\ UnitIdle

Next == IngestNext

Spec == Init /\ [][Next]_vars

InitClassify ==
    /\ tx \in TxSpace
    /\ res = NoResult
    /\ IngestIdle /\ HandleIdle /\ SeqnoIdle /\ UnitIdle

NextClassify == Classify \/ LoadTx

SpecClassify == InitClassify /\ [][NextClassify]_vars

InitHandle == HandleInit /\ ClassifyIdle /\ IngestIdle /\ SeqnoIdle /\ UnitIdle

NextHandle == HandleNext

SpecHandle == InitHandle /\ [][NextHandle]_vars

InitSeqno == HandleIdle /\ ClassifyIdle /\ IngestIdle /\ SeqnoIdle /\ UnitIdle

NextSeqno == HandleSeqno \/ ExpireMinter

SpecSeqno == InitSeqno /\ [][NextSeqno]_vars

InitRegister == HandleIdle /\ ClassifyIdle /\ IngestIdle /\ SeqnoIdle /\ UnitIdle

NextRegister == RegisterNext

SpecRegister == InitRegister /\ [][NextRegister]_vars

InitMinter == HandleIdle /\ ClassifyIdle /\ IngestIdle /\ SeqnoIdle /\ UnitIdle

NextMinter == RememberMinterCall \/ IsMinterKnownCall \/ TtlTick

SpecMinter == InitMinter /\ [][NextMinter]_vars

InitDiscover == HandleIdle /\ ClassifyIdle /\ IngestIdle /\ SeqnoIdle /\ UnitIdle

NextDiscover ==
    \/ \E g \in Handlers : InspectCall(g)
    \/ \E g \in Handlers : FinishCall(g)
    \/ DayPasses

SpecDiscover == InitDiscover /\ [][NextDiscover]_vars

InitJetton ==
    /\ jin \in JettonInputs
    /\ jout = NoResult
    /\ HandleIdle /\ ClassifyIdle /\ IngestIdle /\ SeqnoIdle
    /\ DiscoverIdle /\ LatencyIdle /\ NotifyIdle /\ FlowIdle

NextJetton == InspectJetton \/ NextDeploy

SpecJetton == InitJetton /\ [][NextJetton]_vars

InitLatency == HandleIdle /\ ClassifyIdle /\ IngestIdle /\ SeqnoIdle /\ UnitIdle

NextLatency == ClockTick \/ EmitEvent \/ HandleLatency \/ WebhookMeta

SpecLatency == InitLatency /\ [][NextLatency]_vars

InitNotify == HandleIdle /\ ClassifyIdle /\ IngestIdle /\ SeqnoIdle /\ UnitIdle

NextNotify == NotifyWithEvent \/ Telegram \/ Webhook

SpecNotify == InitNotify /\ [][NextNotify]_vars

UnitsIdle == DiscoverIdle /\ JettonIdle /\ LatencyIdle /\ NotifyIdle

InitStop ==
    /\ rt \in {[RtIdle EXCEPT !.catchupHours = h] : h \in CatchupHours}
    /\ rtLog = <<>>
    /\ rtEmit = {}
    /\ hc = HcIdle
    /\ HandleIdle /\ ClassifyIdle /\ IngestIdle /\ SeqnoIdle /\ UnitsIdle
    /\ FetchIdle /\ DeadlineIdle /\ PoolIdle /\ WorkersIdle /\ PageIdle
    /\ StatsIdle /\ LookupIdle /\ RetryIdle

NextStop ==
    \/ RtNewBlock
    \/ RtStart
    \/ RtStop
    \/ RtSubscribe
    \/ RtSelect
    \/ RtPoll
    \/ RtProcessBlock
    \/ RtHandler
    \/ RtHandleCall
    \/ RtBlockReturn
    \/ RtAdvance

SpecStop == InitStop /\ [][NextStop]_vars

InitFetch == HandleIdle /\ ClassifyIdle /\ IngestIdle /\ SeqnoIdle /\ UnitIdle

NextFetch == HandleOnce \/ ExpireMinter

SpecFetch == InitFetch /\ [][NextFetch]_vars

InitDeadline == HandleIdle /\ ClassifyIdle /\ IngestIdle /\ SeqnoIdle /\ UnitIdle

NextDeadline ==
    \/ DlProcessBlock
    \/ DlLookupBlock
    \/ DlGetBlockShardsInfo
    \/ DlWorkerRecv
    \/ DlShardRequest

SpecDeadline == InitDeadline /\ [][NextDeadline]_vars

InitPool == HandleIdle /\ ClassifyIdle /\ IngestIdle /\ SeqnoIdle /\ UnitIdle

NextPool ==
    \/ PlStart
    \/ PlSend
    \/ PlClose
    \/ \E w \in DOMAIN pw : PwRecv(w)
    \/ \E w \in DOMAIN pw : PwProcessShard(w)
    \/ PlReturn

SpecPool == InitPool /\ [][NextPool]_vars

InitWorkers ==
    /\ HandleIdle /\ ClassifyIdle /\ IngestIdle /\ SeqnoIdle /\ UnitsIdle
    /\ StopIdle /\ FetchIdle /\ DeadlineIdle /\ PoolIdle /\ PageIdle
    /\ StatsIdle /\ LookupIdle /\ RetryIdle
    /\ \E p \in 1..MaxProcs : wc = [WcIdle EXCEPT !.pc = "new", !.procs = p]

NextWorkers ==
    \/ WcNewIndexerClient
    \/ WcProcessBlock

SpecWorkers == InitWorkers /\ [][NextWorkers]_vars

InitPage == HandleIdle /\ ClassifyIdle /\ IngestIdle /\ SeqnoIdle /\ UnitIdle

NextPage ==
    \/ PgProcessShard
    \/ PgGetBlockTransactionsV2
    \/ PgGetTransaction

SpecPage == InitPage /\ [][NextPage]_vars

InitStats == HandleIdle /\ ClassifyIdle /\ IngestIdle /\ SeqnoIdle /\ UnitIdle

NextStats ==
    \/ \E h \in Handlers : StHandle(h)
    \/ \E h \in Handlers : StRead(h)
    \/ \E h \in Handlers : StWrite(h)
    \/ \E h \in Handlers : StInspect(h)

SpecStats == InitStats /\ [][NextStats]_vars

InitLookup == HandleIdle /\ ClassifyIdle /\ IngestIdle /\ SeqnoIdle /\ UnitIdle

NextLookup ==
    \/ LkAddCodeHash
    \/ LkLookup

SpecLookup == InitLookup /\ [][NextLookup]_vars

InitRetry == HandleIdle /\ ClassifyIdle /\ IngestIdle /\ SeqnoIdle /\ UnitIdle

NextRetry ==
    \/ RhHandle
    \/ ExpireMinter

SpecRetry == InitRetry /\ [][NextRetry]_vars

-----------------------------------------------------------------------------
(* Claims *)

\* C1 (Spec): if processBlock(s) returned an error, lastMC is not advanced
\* to s or beyond; the failed seqno is retried instead of skipped.
C1_FailedBlockNotPassed ==
    \A s \in Seqnos : outcome[s] = "err" => lastMC < s

\* C2 (Spec): seqnos are handed to processBlock in steps of exactly one, and
\* a worker goroutine is at work only while processBlock of its own seqno,
\* the latest one called, is waiting for it: the work of a is over before
\* processing of a + 1 begins.
C2_OneAtATimeInOrder ==
    /\ \A i \in 1..(Len(procLog) - 1) : procLog[i + 1] = procLog[i] + 1
    /\ \A w \in DOMAIN wk :
         wk[w].pc # "exit" =>
            /\ pb.pc = "wait"
            /\ wk[w].seqno = pb.seqno
            /\ pb.seqno = procLog[Len(procLog)]

\* C2 witness: a second masterchain block is being processed and one of its
\* workers is inside the transaction loop.
C2_Witness ==
    /\ Len(procLog) >= 2
    /\ \E w \in DOMAIN wk : wk[w].pc = "tx" /\ wk[w].seqno = procLog[Len(procLog)]

\* C3 (Spec): when a shard of block s failed while the other refs of s were
\* processed to the end, lastMC is not advanced to s.
C3_ShardFailureNotAdvanced ==
    \A s \in Seqnos : outcome[s] = "shardfail" => lastMC < s

\* C4 (SpecHandle): with a healthy cache, whatever the interleaving of the
\* Handle calls, an address is delivered to the sinks at most once.
C4_AtMostOneDelivery ==
    ~cacheErrSeen => \A a \in Addrs : sunk[a] <= 1

\* C5 (SpecHandle): metadata that VerifyAndInspect returned, on its way to the
\* cache, the registry and the sinks, has KnownCodeHash or VerifiedByInterface.
C5_EmittedKnownOrVerified ==
    \A g \in Handlers :
        hw[g].pc \in {"remember", "add", "writing", "notify"} =>
            hw[g].known \/ hw[g].verified

\* C5 witness: metadata of a known fingerprint whose interface call failed is
\* about to be delivered.
C5_Witness ==
    \E g \in Handlers : hw[g].pc = "notify" /\ hw[g].known /\ ~hw[g].verified

\* C6 (SpecClassify): a transaction whose state update has old hash = new
\* hash is never classified as a deploy.
C6_NoStateChangeNoDeploy ==
    (res # NoResult /\ ~tx.nil /\ tx.old = tx.new) => ~res.isDeploy

LowerHexDigits ==
    {"0","1","2","3","4","5","6","7","8","9","a","b","c","d","e","f"}

\* C7 (SpecClassify): isDeploy implies an internal or external incoming
\* message with a StateInit whose code is present, and a non-empty
\* fingerprint that is the lower-case hex of the code cell's hash.
C7_DeployHasCodeFingerprint ==
    (res # NoResult /\ res.isDeploy) =>
        /\ ~tx.nil
        /\ tx.in \in {"internal", "external"}
        /\ tx.stateInit
        /\ tx.code # 0
        /\ res.codeHash # <<>>
        /\ Len(res.codeHash) = 2 * Len(CellHash(tx.code))
        /\ \A i \in 1..Len(res.codeHash) : res.codeHash[i] \in LowerHexDigits
        /\ res.codeHash = ToLower(EncodeToString(CellHash(tx.code)))

\* C7 witness: an external message with StateInit code was classified a deploy.
C7_Witness ==
    /\ res # NoResult
    /\ res.isDeploy
    /\ tx.in = "external"
    /\ tx.data = 0

\* C8 (SpecSeqno): a Handle call in which a cache operation failed still
\* reports every event that a healthy empty cache would have reported.
C8_FailOpen ==
    (last.called /\ last.cacheErr /\ last.healthyEmits) => last.emitted

\* C9 (SpecHandle): no goroutine stores into the registry map while another
\* one reads it or stores into it.
C9_RegistryMutualExclusion == ~Racing

\* C10 (Spec): all pool requests made for one masterchain seqno are served by
\* one liteserver connection.
C10_OneConnectionPerBlock == Cardinality(blockConns) <= 1


\* C11 (SpecRegister): when a RegisterSeqno call returns, and no Redis command
\* has failed, the sorted set holds at most SeqnoWindow members, and exactly
\* SeqnoWindow once more than SeqnoWindow distinct seqnos were inserted; this
\* for calls of several goroutines at once.
C11_SeqnoSetTrimmed ==
    (ret.called /\ ret.seqno # 0 /\ ~cacheErrSeen) =>
        /\ Cardinality(ret.after) <= SeqnoWindow
        /\ Cardinality(ret.ins) > SeqnoWindow =>
               Cardinality(ret.after) = SeqnoWindow

\* C12 (SpecRegister): a RegisterSeqno call returns isNew = true exactly when
\* the seqno was absent from the sorted set (taken at the moment ZAddNX runs),
\* and a call for a seqno that is present leaves the set as it was.
C12_IsNewIffAbsent ==
    ret.called =>
        /\ ret.isNew <=> ret.absent
        /\ ~ret.absent => ret.after = ret.before


\* C13 (SpecMinter): a RememberMinter call for an address whose key is still
\* within its TTL leaves IsMinterKnown true for that address and changes the
\* answer of IsMinterKnown for no address.
C13_RememberIdempotent ==
    (rem.called /\ MinterExists(rem.before, rem.addr)) =>
        /\ MinterExists(rem.after, rem.addr)
        /\ \A b \in CacheAddrs :
             MinterExists(rem.after, b) = MinterExists(rem.before, b)

\* C13 witness: a second successful RememberMinter, given the upper-case
\* spelling, while another address is not known.
C13_Witness ==
    /\ rem.called /\ ~rem.err
    /\ MinterExists(rem.before, rem.addr)
    /\ rem.addr # ToLower(rem.addr)
    /\ \E b \in CacheAddrs : ~MinterExists(rem.after, b)
    /\ asked.called /\ asked.seen /\ asked.addr = ToLower(rem.addr)


\* C14 (SpecDiscover): when Handle invokes AddCodeHash for a fingerprint that
\* is already in the registry, the label it had stays; for one that is not in
\* the registry the label auto_verified_<date of the call> is inserted.
C14_AddCodeHashNoOp ==
    (done.called /\ done.added) =>
        IF done.present THEN done.labelAfter = done.labelBefore
        ELSE done.labelAfter = AutoLabelOn(done.day)

\* C15 (SpecDiscover): an inspection that finds the fingerprint unknown and
\* gets an error or fewer than 4 stack elements from get_jetton_data returns
\* no metadata, so that no completion (cache write, registry insertion,
\* notification) ever runs for metadata neither known nor verified.
C15_UnknownFailedDropped ==
    /\ (insp.called /\ ~insp.known /\ (insp.reply.err \/ insp.reply.len < 4))
           => ~insp.queued
    /\ \A g \in Handlers :
           pending[g] # NoMeta => pending[g].known \/ pending[g].verified
    /\ done.called => done.known \/ done.verified

\* C15 witness: get_jetton_data answered with 3 stack elements for an unknown
\* fingerprint, and the inspection returned nothing.
C15_Witness ==
    /\ insp.called /\ ~insp.known /\ ~insp.queued
    /\ ~insp.reply.err /\ insp.reply.len < 4

\* C16 (SpecDiscover): a completion for metadata with an unknown code hash and
\* a verified interface carries the minter type "Interface-Verified (Unknown
\* Code)", and after it the registry maps the fingerprint to the label
\* auto_verified_<date of that day>.
C16_UnknownVerifiedNoted ==
    (done.called /\ ~done.known /\ done.verified) =>
        /\ done.minterType = "Interface-Verified (Unknown Code)"
        /\ done.added
        /\ done.labelAfter = AutoLabelOn(done.day)
        /\ done.codeHash \in DOMAIN codeHashes

\* C16 witness: such a completion on the second day, for a fingerprint that
\* was absent from the registry.
C16_Witness ==
    /\ done.called /\ ~done.known /\ done.verified
    /\ ~done.present /\ done.day > 1
    /\ codeHashes[done.codeHash] = AutoLabelOn(done.day)


\* C17 (SpecLatency): in every webhook payload, meta.latency_ms equals
\* meta.indexer_unixtime*1000 - meta.block_unixtime*1000 to within one second.
C17_LatencyIsTimeDifference ==
    hook.sent =>
        Abs(hook.latencyMs - ((hook.indexerUnixtime * MsPerSecond)
                              - (hook.blockUnixtime * MsPerSecond)))
            <= MsPerSecond

\* C18 (SpecJetton): metadata returned by VerifyAndInspect has decimals = 9
\* (the code parses no decimals value out of the content), also for a known
\* code hash whose interface call failed and for an empty content element.
C18_DecimalsDefaultNine ==
    (jout # NoResult /\ jout # NoMeta) => jout.decimals = 9

\* the decimal notation of a natural number, in ASCII
RECURSIVE DecimalString(_)
DecimalString(n) ==
    IF n < 10 THEN <<48 + n>>
    ELSE Append(DecimalString(n \div 10), 48 + (n % 10))

\* C19 (SpecJetton): when get_jetton_data returned the integer n as its first
\* element and the interface was verified, the metadata's total_supply is the
\* decimal string of n.
C19_TotalSupplyDecimal ==
    (jout # NoResult /\ jout # NoMeta /\ jout.verified) =>
        jout.totalSupply = DecimalString(jin.reply.stack[1].int)

\* C20 (SpecNotify): when the Telegram sink failed, answered non-2xx or timed
\* out, a configured webhook is still attempted, and with the time it would
\* have had without Telegram: its own timeout under the deadline of the call.
C20_SinksIndependent ==
    (nt.pc = "done" /\ nt.whOn /\ nt.tg \in {"status", "timeout"}) =>
        /\ nt.wh \in {"sent", "status", "timeout"}
        /\ nt.whBudget = Min(HttpTimeout, nt.startLeft)

\* C21 (SpecStop): every blocking call made while handling a deploy runs
\* under a context derived from the root context, so once the root is
\* cancelled at most the call in flight (one I/O round trip) still does its
\* I/O.
C21_CancellationReachesHandle == hc.io <= 1

\* C22 (SpecStop): with catchup_hours = 0 no catch-up pass runs, lastMC is
\* initialised to the head H observed at start, and every event handed to
\* the handler carries seqno >= H + 1.
C22_StartsAtHead ==
    (rt.catchupHours = 0 /\ rt.pc \notin {"new", "failed", "start"}
        /\ rt.err # "wrapped") =>
        /\ \A i \in DOMAIN rt.passes : rt.passes[i] # "catchup"
        /\ rt.lastMC >= rt.startHead
        /\ \A s \in rtEmit : s >= rt.startHead + 1

\* a deploy of the first block after the head observed at start was handed
\* to the handler, with catchup_hours = 0
C22_Witness ==
    /\ rt.catchupHours = 0
    /\ rt.startHead + 1 \in rtEmit
    /\ rt.lastMC > rt.startHead

\* C30 (SpecStop): after the root context is cancelled Subscribe does not
\* start processing further seqnos and marks no seqno as processed that it
\* did not process.
C30_CancelStopsBetweenSeqnos ==
    rt.cancelled =>
        /\ \A i \in DOMAIN rtLog : ~rtLog[i].cancelled
        /\ \A s \in (rt.startHead + 1)..rt.lastMC :
              \E i \in DOMAIN rtLog : rtLog[i].seqno = s /\ ~rtLog[i].cancelled

\* C23 as stated (SpecFetch): Handle of a deploy event whose CodeHash is empty
\* and whose address is not in the cache obtains the fingerprint through
\* GetCodeHash and, when the detector accepts it, stores the address in the
\* minter cache, invokes the notifier exactly once and returns no error.
C23_FallbackStoresAndNotifies ==
    (hr.called /\ hr.deploy /\ hr.empty /\ ~hr.inCache /\ hr.code # 0
        /\ (hr.known \/ (~hr.reply.err /\ hr.reply.len >= 4))) =>
        /\ hr.codeHash = EncodeToString(CellHash(hr.code))
        /\ hr.stored
        /\ hr.notified = 1
        /\ ~hr.err

\* C23 amended (SpecFetch): the same, the address being stored unless the
\* cache write fails, in which case the error is only logged.
C23_FallbackNotifiesOnce ==
    (hr.called /\ hr.deploy /\ hr.empty /\ ~hr.inCache /\ hr.code # 0
        /\ (hr.known \/ (~hr.reply.err /\ hr.reply.len >= 4))) =>
        /\ hr.codeHash = EncodeToString(CellHash(hr.code))
        /\ hr.remember = "ok" => hr.stored
        /\ hr.notified = 1
        /\ ~hr.err

\* a Handle call fetched the fingerprint, the detector accepted it by its
\* interface, the address was stored and the notifier called
C23_Witness ==
    /\ hr.called /\ hr.deploy /\ hr.empty /\ ~hr.inCache
    /\ hr.code # 0 /\ ~hr.known /\ ~hr.reply.err /\ hr.reply.len >= 4
    /\ hr.remember = "ok" /\ hr.stored /\ hr.notified = 1

\* C24 (SpecSeqno): deduplication is keyed on the minter address only: an
\* event whose address is not known is reported whenever it would be on an
\* empty cache, whatever seqnos have been seen before.
C24_DedupByAddressOnly ==
    (last.called /\ ~last.cacheErr /\ last.healthyEmits /\ ~last.addrKnown) =>
        last.emitted

\* C25 (SpecJetton): VerifyAndInspect returns "not a minter" iff the
\* fingerprint is not in the registry and the interface check failed; the
\* check fails exactly when get_jetton_data returns an error or fewer than
\* 4 elements; a known fingerprint whose call fails is returned with
\* interface_verified = false and the registry label as minter type.
C25_RejectIffUnknownAndFailed ==
    jout # NoResult =>
        LET failed == jin.reply.err \/ Len(jin.reply.stack) < 4
            inReg  == ToLower(jin.codeHash) \in DOMAIN codeHashes
        IN  /\ (jout = NoMeta) <=> (~inReg /\ failed)
            /\ jout # NoMeta => /\ jout.verified <=> ~failed
                                /\ jout.known <=> inReg
            /\ (inReg /\ failed) =>
                  jout.minterType = codeHashes[ToLower(jin.codeHash)]

\* a registered fingerprint whose get_jetton_data call failed came back as
\* metadata
C25_Witness ==
    /\ jout # NoResult /\ jout # NoMeta
    /\ jin.reply.err
    /\ jout.known /\ ~jout.verified
    /\ jout.minterType = "USDT Minter"

\* C26 (SpecDeadline): every shard request of processBlock(s) is bounded by
\* the per-block deadline: it does not run beyond that deadline, and one
\* issued after it fails at once instead of getting a fresh timeout.
C26_ShardWorkWithinBlockDeadline ==
    dl.req.issued =>
        \/ dl.req.end <= dl.blockCtx.at
        \/ ~dl.req.ok /\ dl.req.end = dl.req.start

\* C27 (SpecPool): processBlock dispatches the masterchain ref and every
\* shard ref to the worker pool, each dispatched ref is processed exactly
\* once by exactly one worker, the dispatching sends never block, the call
\* never deadlocks, and it returns only after all workers have finished and
\* the channel is closed.
C27_DispatchExactlyOnce ==
    /\ ~pl.blocked
    /\ \A r \in Refs(MaxPoolShards) : pl.count[r] <= 1
    /\ pl.pc \in {"send", "wait"} => ENABLED PoolStep
    /\ pl.pc = "returned" =>
          /\ pl.closed
          /\ pl.sent = pl.n + 1
          /\ \A w \in DOMAIN pw : pw[w].pc = "exit"
          /\ \A r \in Refs(MaxPoolShards) :
                IF r \in Refs(pl.n)
                THEN pl.count[r] = 1 /\ Cardinality(pl.by[r]) = 1
                ELSE pl.count[r] = 0

\* processBlock returned for a block with shards, one worker having
\* processed the master ref and a shard ref as well
C27_Witness ==
    /\ pl.pc = "returned"
    /\ pl.n >= 1
    /\ pl.by[MasterRef] = pl.by[1]
    /\ pl.count[MasterRef] = 1 /\ pl.count[1] = 1

Largest(S) == CHOOSE x \in S : \A y \in S : y <= x
Smallest(S) == CHOOSE x \in S : \A y \in S : x <= y

\* C28 (SpecWorkers): the shard worker count equals
\* max(8, min(64, cores * 4)), and the number of workers started for a block
\* exceeds neither that count nor the number of refs to process (shards + 1).
C28_WorkerCount ==
    /\ wc.pc \in {"ready", "started"} =>
          wc.shardWorkers = Largest({8, Smallest({64, wc.procs * 4})})
    /\ wc.pc = "started" =>
          /\ wc.started <= Largest({8, Smallest({64, wc.procs * 4})})
          /\ wc.started <= wc.shards + 1

\* a machine whose cores * 4 is above 64, and a block with more refs than
\* the pool has workers
C28_Witness ==
    /\ wc.pc = "started"
    /\ wc.procs * 4 > 64
    /\ wc.shards + 1 > wc.shardWorkers
    /\ wc.started = 64

\* the ids of a sequence that are not in a set, in the order of the sequence
Without(seq, set) == SelectSeq(seq, LAMBDA id : id \notin set)

\* the requests of the processShard call went page by page: count 100, the
\* first cursor nil, every later one the last id returned before it
PagedByCursor ==
    \A j \in DOMAIN pg.asked :
        /\ pg.asked[j].count = 100
        /\ pg.asked[j].after = IF j = 1 THEN 0 ELSE pg.pageEnds[j - 1]

\* C29 (SpecPage), as stated: per shard, the transactions are listed with
\* page size 100 and the cursor set to the last transaction of the previous
\* page until has_more is false, and every transaction id returned on any
\* page is then loaded and classified exactly once, in cursor order.
C29_EveryListedIdClassified ==
    pg.pc = "done" =>
        /\ PagedByCursor
        /\ pg.classified = pg.fetchedIDs

\* C29 (SpecPage), amended: the pages are requested as stated; when every
\* page request succeeded, every transaction id of the block was returned
\* once, GetTransaction was called for each exactly once in cursor order, and
\* the ids whose load succeeded were classified exactly once in that order
\* (an id whose load fails is skipped); when a page request failed, no
\* transaction was loaded.
C29_ListedIdsLoadedInOrder ==
    /\ PagedByCursor
    /\ pg.pc = "done" =>
          IF pg.err
          THEN pg.tried = <<>> /\ pg.classified = <<>>
          ELSE /\ pg.fetchedIDs = IdRange(1, pg.n)
               /\ pg.tried = pg.fetchedIDs
               /\ pg.classified = Without(pg.fetchedIDs, pg.loadFailed)

\* a shard block listed on more than one page, one load failed and a later
\* id classified
C29_Witness ==
    /\ pg.pc = "done" /\ ~pg.err
    /\ Len(pg.asked) >= 2
    /\ pg.asked[2].after >= 2
    /\ \E id \in pg.loadFailed :
         \E j \in DOMAIN pg.classified : pg.classified[j] > id

\* C31 (SpecPage): a failure while loading or handling one transaction (a
\* GetTransaction error, a nil transaction, an error returned by the handler)
\* skips only that transaction: the other transactions of the shard are
\* still processed and processShard returns no error.
C31_FailureSkipsOneTransaction ==
    (pg.pc = "done" /\ Len(pg.tried) > 0) =>
        /\ ~pg.err
        /\ pg.tried = pg.fetchedIDs
        /\ pg.classified = Without(pg.fetchedIDs, pg.loadFailed)
        /\ \A j \in DOMAIN pg.handled : pg.handled[j] \notin pg.loadFailed

\* the first load failed, the handler failed on the second transaction, and
\* the third went through the handler
C31_Witness ==
    /\ pg.pc = "done"
    /\ Len(pg.fetchedIDs) = 3
    /\ pg.loadFailed = {1}
    /\ pg.handlerErrs = {2}
    /\ pg.handled = <<2, 3>>

\* C38 (SpecPage): while has_more is true each GetBlockTransactionsV2 request
\* of processShard uses a cursor different from the previous one, also after
\* an empty page with has_more = true, so the loop ends after finitely many
\* requests.
C38_PaginationProgress ==
    \A j \in DOMAIN pg.asked :
        j > 1 => pg.asked[j].after # pg.asked[j - 1].after

\* C39 (SpecPage): when GetBlockTransactionsV2 fails on a page, processShard
\* returns the error without loading a transaction or invoking the handler,
\* also for the pages already fetched, and the minter keys, the registry and
\* the sinks are as they were when processShard was called.
C39_ListFailureTouchesNothing ==
    pg.err =>
        /\ pg.pc = "done"
        /\ pg.tried = <<>> /\ pg.handled = <<>>
        /\ minters = pg.before.minters
        /\ codeHashes = pg.before.codeHashes
        /\ sunk = pg.before.sunk

\* the second page request failed after a page with ids had come, in a
\* processShard call that followed one whose handler had remembered a minter
C39_Witness ==
    /\ pg.err
    /\ Len(pg.asked) = 2
    /\ Len(pg.fetchedIDs) >= 1
    /\ minters # {}

\* C32 (SpecStats): the counters are updated atomically: once the Handle
\* calls running concurrently in the shard workers have returned, GetStats
\* gives the number of deploy events handled and the number of minters
\* detected (no update is lost).
C32_NoLostCounterUpdate ==
    (\A h \in Handlers : sc.g[h].pc = "idle") =>
        GetStats = <<sc.deploys, sc.minters>>

\* two strings that differ in letter case at most
SameButCase(a, b) ==
    /\ Len(a) = Len(b)
    /\ \A i \in 1..Len(a) :
         \/ a[i] = b[i]
         \/ \E j \in 1..Len(LowerLetters) :
              {a[i], b[i]} = {LowerLetters[j], UpperLetters[j]}

\* C33 (SpecLookup): the registry lookup recognises every seeded fingerprint
\* whatever the letter case of the queried string, and rejects every string
\* that was neither seeded nor inserted at runtime.
C33_LookupIgnoresCase ==
    lk.called =>
        /\ (\E h \in DOMAIN defaultCodeHashes : SameButCase(lk.query, h))
              => lk.known
        /\ (\E h \in DOMAIN inspectCodeHashes : SameButCase(lk.query, h))
              => lk.isMinter
        /\ (\A h \in DOMAIN codeHashes : ~SameButCase(lk.query, h))
              => ~lk.known /\ lk.minterType = "Unknown"
        /\ (\A h \in DOMAIN inspectCodeHashes : ~SameButCase(lk.query, h))
              => ~lk.isMinter

\* a seed queried in upper case was recognised, with a fingerprint added at
\* runtime in the registry
C33_Witness ==
    /\ lk.called /\ lk.known
    /\ lk.query = ToUpper(lk.query)
    /\ lk.query \notin DOMAIN defaultCodeHashes
    /\ \E h \in DOMAIN defaultCodeHashes : SameButCase(lk.query, h)
    /\ DOMAIN codeHashes # DOMAIN NewDetectorHashes

\* C34 (Spec): lastMC never decreases: it is written only by Subscribe (at
\* its start and at the end of a pass of its loop), and every write of the
\* loop stores a value strictly greater than the value read at the start of
\* that pass.
C34_LastMCNeverDecreases ==
    [][/\ lastMC' >= lastMC
       /\ lastMC' # lastMC => sub.pc \in {"start", "loop"}
       /\ (sub.pc = "loop" /\ sub'.pc = "poll") => lastMC' > sub.lastSeqno]_vars

\* the loop of Subscribe has stored lastMC, past the head it started from
C34_Witness ==
    /\ sub.pc = "poll"
    /\ sub.lastSeqno >= 1
    /\ lastMC > sub.lastSeqno
    /\ lastMC = sub.newMaster

\* C35 (SpecRegister): whenever RegisterSeqno(s) returns (true, no error) for
\* s > 0, s is a member of the sorted set when the call returns, so that a
\* RegisterSeqno(s) that follows at once returns false.
C35_NewSeqnoIsMember ==
    (ret.called /\ ret.isNew /\ ~ret.err /\ ret.seqno > 0) =>
        ret.seqno \in ret.after

\* the call before this one discovered the same address and every sink
\* delivery failed, and no key that call stored has expired since
RetryWithinTTL ==
    /\ rh.called
    /\ rh.prevOwed = rh.addr
    /\ rh.prevStored => rh.inCache

C37_AutoInsertedThenKnown ==
    /\ (insp.called /\ insp.present) => insp.known /\ insp.queued
    /\ \A g \in Handlers :
         (pending[g] # NoMeta /\ pending[g].present) =>
             /\ pending[g].known
             /\ \E d \in Days :
                  pending[g].minterType = "auto_verified_" \o FormatDate(d)

\* a deploy whose fingerprint had been inserted on the first day was
\* inspected on a later day, its get_jetton_data failed, and it is on its
\* way to the sinks with the label of the first day
C37_Witness ==
    /\ insp.called /\ insp.present /\ insp.reply.err /\ insp.queued
    /\ today > 1
    /\ \E g \in Handlers :
         /\ pending[g] # NoMeta
         /\ pending[g].present /\ ~pending[g].verified
         /\ pending[g].minterType = "auto_verified_" \o FormatDate(1)

=============================================================================
